---- MODULE Spec2Model ----
(***************************************************************************)
(* A model of the KnowS tool adapter of pkg/tools/knows.go:                *)
(*   - knowsClient.postJSON with shouldRetry and waitRetry (SpecPost),     *)
(*   - the delay computed by waitRetry in 64-bit nanoseconds (SpecBackoff),*)
(*   - the batch handlers of knows_batch_answer and                        *)
(*     knows_batch_get_evidence_details (SpecBatch),                       *)
(*   - knowsDetailCache (SpecCache), and goroutines that share it         *)
(*     (SpecConc),                                                         *)
(*   - the detail lookups and fetchEvidenceDetail (SpecLookup),            *)
(*   - the validation of a tool's arguments by its handler (SpecTools),    *)
(*   - NewKnowsTools (SpecNew),                                            *)
(*   - knowsTool.Execute from the call to the result (SpecExec),           *)
(*   - the goroutines of knows_batch_get_evidence_details in their         *)
(*     lookups, sharing the cache and the context (SpecFetch),             *)
(*   - the four lookups with each value of the translate flag (SpecFlags). *)
(* SpecPostFair, SpecBatchFair and SpecFetchFair add weak fairness of the  *)
(* steps, for the properties of termination.                               *)
(* Every specification moves its own variables and leaves the others at   *)
(* their idle values.                                                      *)
(***************************************************************************)
EXTENDS Integers, Sequences, FiniteSets, TLC

VARIABLES
    \* ---- knowsClient.postJSON (one call) ----
    maxRetries,     \* knowsClient.maxRetries
    ctx,            \* the caller's context: "live", "Canceled", "DeadlineExceeded"
    ppc,            \* position of the call: "idle", "do", "wait", "woken", "done"
    attempt,        \* the loop variable of postJSON
    lastErr,        \* the variable lastErr of postJSON
    wake,           \* the case of waitRetry's select that woke the call
    ret,            \* what postJSON returned
    hist,           \* the responses of httpClient.Do, one per attempt
    waited,         \* the attempts (counted from 1) after which waitRetry was entered
    waitCancelled   \* the number of attempts made when the context ended a wait, else 0

postVars == <<maxRetries, ctx, ppc, attempt, lastErr, wake, ret, hist, waited,
              waitCancelled>>

VARIABLES
    \* ---- the batch handlers ----
    tool,             \* the tool called: its name
    batchConcurrency, \* knowsToolFactory.batchConcurrency
    requests,         \* the parsed sub-requests (requests, evidences)
    bpc,              \* position of the handler: "idle", "spawn", "wait", "close",
                      \*   "drain", "returned"
    spawned,          \* how many goroutines the handler's loop has started
    wpc,              \* position of goroutine i: "none", "acquire", "call", "send",
                      \*   "release", "exit"
    sem,              \* number of elements in the channel sem
    ch,               \* the elements of the channel ch, oldest first
    chClosed,         \* whether ch was closed
    wg,               \* the counter of the WaitGroup
    results,          \* the slice results
    called,           \* data, err of goroutine i once its call has returned
    sendOrder,        \* the goroutines in the order in which they sent on ch
    bret              \* what the handler returned

batchVars == <<tool, batchConcurrency, requests, bpc, spawned, wpc, sem, ch, chClosed,
               wg, results, called, sendOrder, bret>>

VARIABLES
    \* ---- the delay of waitRetry ----
    retryBackoff,   \* knowsClient.retryBackoff, in nanoseconds, as 64 bits
    wAttempt,       \* the argument attempt of the next waitRetry
    delay,          \* the delay the last waitRetry waited, as 64 bits
    prevDelay       \* the delay the waitRetry before it waited

backoffVars == <<retryBackoff, wAttempt, delay, prevDelay>>

VARIABLES
    \* ---- knowsDetailCache ----
    entries,        \* knowsDetailCache.entries: key -> [value, expiresAt]
    order,          \* knowsDetailCache.order
    ttl,            \* knowsDetailCache.ttl
    maxEntries,     \* knowsDetailCache.maxEntries
    now,            \* the clock read by time.Now()
    lastSet,        \* key -> [value, at, since] for the keys not removed from
                    \*   the cache since their latest Set: the value and the
                    \*   time of that Set, and the time of the Set that
                    \*   inserted the key
    got,            \* the Get that was the last step, if it was one: its key,
                    \*   its result, and what lastSet and the clock said of
                    \*   the key when it was called
    did             \* the Set that was the last step, if it was one: its key,
                    \*   whether the key was present, whether the cache was
                    \*   full, and the keys it evicted, each with what lastSet
                    \*   said of it

cacheVars == <<entries, order, ttl, maxEntries, now, lastSet, got, did>>

VARIABLES
    \* ---- goroutines that call Get and Set of the one cache ----
    mu,             \* knowsDetailCache.mu: 0, or the goroutine that holds it
    gpc,            \* position of goroutine g in its Get or Set
    gop,            \* the call goroutine g is in: [op, key, value]
    gentry,         \* the variables entry, ok of goroutine g's Get
    gret,           \* what the Get of goroutine g is about to return
    serial          \* the calls run one after the other, whole, in the order
                    \*   in which they read the clock under the lock: cache
                    \*   is entries and order as they leave them, ret is
                    \*   what the latest Get of them returned

concVars == <<mu, gpc, gop, gentry, gret, serial>>

VARIABLES
    \* ---- detail lookups of one caller, one after the other ----
    lpc,            \* position of the lookup: "idle", "fetch" (in postJSON)
    lreq,           \* the lookup's arguments: [kind, id, translate]
    lret            \* what the lookup returned, if the last step was its return

lookupVars == <<lpc, lreq, lret>>

VARIABLES
    \* ---- one call of a tool: knowsTool.Execute ----
    tname,          \* knowsTool.name
    targs,          \* args: key -> the raw value the caller gave
    tfield,         \* the one field in which args differs from a well-formed
                    \*   bag of the tool, if it does: [list, index, name]
    tpc,            \* position of the handler: "idle", "called", "client"
                    \*   (in the call of the client), "returned"
    tret,           \* the error the handler returned before it called the
                    \*   client, or the call of the client it made; once the
                    \*   client has returned, whether the handler returned
                    \*   an error, and the error
    tout            \* the *ToolResult that Execute returned

toolVars == <<tname, targs, tfield, tpc, tret, tout>>

VARIABLES
    \* ---- NewKnowsTools ----
    opts,           \* the KnowsToolOptions given to NewKnowsTools
    factory         \* what NewKnowsTools returned: err, and the settings of
                    \*   the client, the cache and the factory it built

newVars == <<opts, factory>>

VARIABLES
    \* ---- the goroutines of knows_batch_get_evidence_details, each in its
    \*      call of fetchEvidenceDetail ----
    ftranslate,     \* translate, the flag of the whole batch: "nil", "false",
                    \*   "true"
    fpc,            \* position of goroutine i in its lookup: "none", "get"
                    \*   (in cache.Get), "do" (the request is with the
                    \*   server), "wait" (in waitRetry), "set" (in
                    \*   cache.Set), "done"
    fcall,          \* the method of the client fetchEvidenceDetail called
                    \*   for goroutine i, and its arguments
    fatt,           \* attempt of the postJSON of goroutine i
    fres            \* what the latest attempt of goroutine i came to

fetchVars == <<ftranslate, fpc, fcall, fatt, fres>>

vars == <<postVars, batchVars, backoffVars, cacheVars, concVars, lookupVars, toolVars,
          newVars, fetchVars>>

\* what each specification leaves alone
PostFrame == <<batchVars, backoffVars, cacheVars, concVars, lookupVars, toolVars, newVars, fetchVars>>

BatchFrame == <<postVars, backoffVars, cacheVars, concVars, lookupVars, toolVars, newVars, fetchVars>>

BackoffFrame == <<postVars, batchVars, cacheVars, concVars, lookupVars, toolVars, newVars, fetchVars>>

CacheFrame == <<postVars, batchVars, backoffVars, concVars, lookupVars, toolVars, newVars, fetchVars>>

ConcFrame == <<postVars, batchVars, backoffVars, lookupVars, toolVars, newVars, fetchVars>>

LookupFrame == <<batchVars, backoffVars, concVars, toolVars, newVars, fetchVars>>

ToolFrame == <<backoffVars, concVars, newVars, fetchVars>>

NewFrame == <<postVars, batchVars, backoffVars, cacheVars, concVars, lookupVars, toolVars,
             fetchVars>>

FetchFrame == <<backoffVars, lookupVars, toolVars, newVars>>

(***************************************************************************)
(* Bounds of the model.                                                    *)
(***************************************************************************)
MaxRetriesBound == 2

MaxBatch == 4

MaxConcurrency == 2

MaxAttempt == 40

MaxEntries == 2

MaxTTL == 2

MaxTime == 3

MaxGoroutines == 2

MaxSetting == 2

(***************************************************************************)
(* Errors.  An error is a record of the message template that built it,    *)
(* the HTTP status it quotes (0 when it quotes none) and the error it      *)
(* wraps, which is what errors.Is sees.                                    *)
(***************************************************************************)
CtxErrors == {"Canceled", "DeadlineExceeded"}

NoError == [msg |-> "nil", status |-> 0, cause |-> "nil"]

RequestFailed(cause) == [msg |-> "request failed", status |-> 0, cause |-> cause]

ReadFailed(cause) == [msg |-> "failed to read response", status |-> 0, cause |-> cause]

StatusFailed(status) == [msg |-> "failed with status", status |-> status, cause |-> "nil"]

DecodeFailed == [msg |-> "failed to decode response", status |-> 0, cause |-> "Other"]

NoLastError == [msg |-> "request failed (no attempt)", status |-> 0, cause |-> "nil"]

\* ctx.Err(), as waitRetry returns it
CtxErr(c) == [msg |-> "context", status |-> 0, cause |-> c]

(***************************************************************************)
(* JSON documents a server can send.  A document is a record; an object    *)
(* lists its fields, and only the data field's value is looked at.         *)
(***************************************************************************)
JsonNull == [t |-> "null"]

JsonPayload == [t |-> "object", name |-> "payload"]

JsonList == [t |-> "array", name |-> "list"]

\* {"data": {...}}, {"data": null}, {"code": 0}, {"code": 0, "data": {...}}, [...]
Envelope == [t |-> "object", fields |-> {"data"}, data |-> JsonPayload]

EnvelopeNull == [t |-> "object", fields |-> {"data"}, data |-> JsonNull]

PlainObject == [t |-> "object", fields |-> {"code"}, data |-> JsonNull]

EnvelopeWithCode == [t |-> "object", fields |-> {"code", "data"}, data |-> JsonPayload]

Documents == {Envelope, EnvelopeNull, PlainObject, EnvelopeWithCode, JsonList}

EmptyMap == [t |-> "object", fields |-> {}, data |-> JsonNull]

\* a response body: blank, not JSON, or a document
Bodies == {[kind |-> "blank"], [kind |-> "invalid"]}
            \cup {[kind |-> "json", doc |-> d] : d \in Documents}

StatusCodes == {200, 299, 300, 404, 499, 500, 503, 599, 600}

(***************************************************************************)
(* What one httpClient.Do followed by io.ReadAll can give: a transport     *)
(* error, or a status with a read error, or a status with a body.  A       *)
(* context error needs a done context, except that the client's own        *)
(* Timeout also reports DeadlineExceeded.                                  *)
(***************************************************************************)
TransportErrors(c) == {"Other", "DeadlineExceeded"} \cup (IF c = "live" THEN {} ELSE {c})

Responses(c) ==
    {[err |-> e, status |-> 0, readErr |-> "nil", body |-> [kind |-> "blank"]] :
        e \in TransportErrors(c)}
    \cup {[err |-> "nil", status |-> s, readErr |-> e, body |-> [kind |-> "blank"]] :
        s \in {200, 503}, e \in TransportErrors(c)}
    \cup {[err |-> "nil", status |-> s, readErr |-> "nil", body |-> [kind |-> "blank"]] :
        s \in StatusCodes \ {200}}
    \cup {[err |-> "nil", status |-> 200, readErr |-> "nil", body |-> b] : b \in Bodies}

(***************************************************************************)
(* knowsClient.shouldRetry                                                 *)
(***************************************************************************)
\* mutants of shouldRetry: one attempt short; blind to the context's errors;
\* retrying client errors too
shouldRetryOneShort(att, statusCode, err) ==
    IF att + 1 >= maxRetries THEN FALSE
    ELSE IF err # "nil"
         THEN IF err \in CtxErrors THEN FALSE ELSE TRUE
         ELSE statusCode >= 500 /\ statusCode <= 599

shouldRetryAnyError(att, statusCode, err) ==
    IF att >= maxRetries THEN FALSE
    ELSE IF err # "nil" THEN TRUE
    ELSE statusCode >= 500 /\ statusCode <= 599

shouldRetryClientErrors(att, statusCode, err) ==
    IF att >= maxRetries THEN FALSE
    ELSE IF err # "nil"
         THEN IF err \in CtxErrors THEN FALSE ELSE TRUE
         ELSE statusCode >= 400 /\ statusCode <= 599

\* mutant of shouldRetry: a retry is granted after the last attempt too
shouldRetryOneMore(att, statusCode, err) ==
    IF att > maxRetries THEN FALSE
    ELSE IF err # "nil"
         THEN IF err \in CtxErrors THEN FALSE ELSE TRUE
         ELSE statusCode >= 500 /\ statusCode <= 599

shouldRetry(att, statusCode, err) ==
    IF att >= maxRetries THEN FALSE
    ELSE IF err # "nil"
         THEN IF err \in CtxErrors THEN FALSE ELSE TRUE
         ELSE statusCode >= 500 /\ statusCode <= 599

(***************************************************************************)
(* The failure of an attempt, if the response is one: the value lastErr    *)
(* takes and the arguments shouldRetry gets.                               *)
(***************************************************************************)
IsFailure(r) == r.err # "nil" \/ r.readErr # "nil" \/ r.status < 200 \/ r.status >= 300

FailureErr(r) ==
    IF r.err # "nil" THEN RequestFailed(r.err)
    ELSE IF r.readErr # "nil" THEN ReadFailed(r.readErr)
    ELSE StatusFailed(r.status)

FailureRetry(att, r) ==
    IF r.err # "nil" THEN shouldRetry(att, 0, r.err)
    ELSE IF r.readErr # "nil" THEN shouldRetry(att, r.status, r.readErr)
    ELSE shouldRetry(att, r.status, "nil")

(***************************************************************************)
(* The result of a 2xx response: lines 1045-1060 of postJSON.              *)
(***************************************************************************)
Unwrap(doc) ==
    IF doc.t = "object" /\ "data" \in doc.fields /\ doc.data # JsonNull
    THEN doc.data
    ELSE doc

Decode(body) ==
    IF body.kind = "blank" THEN [ok |-> TRUE, data |-> EmptyMap, err |-> NoError]
    ELSE IF body.kind = "invalid" THEN [ok |-> FALSE, data |-> JsonNull, err |-> DecodeFailed]
    ELSE [ok |-> TRUE, data |-> Unwrap(body.doc), err |-> NoError]

Failed(e) == [ok |-> FALSE, data |-> JsonNull, err |-> e]

NotReturned == [ok |-> FALSE, data |-> JsonNull, err |-> NoError]

\* the condition of the loop of postJSON, and the return after the loop
LoopCondition(att) == att <= maxRetries

AfterLoop == IF lastErr # NoError THEN Failed(lastErr) ELSE Failed(NoLastError)

(***************************************************************************)
(* postJSON, one action per step at which the call can be suspended.       *)
(***************************************************************************)
\* the call starts: the payload is encoded and the first request is sent
PostStart ==
    /\ ppc = "idle"
    /\ attempt' = 0
    /\ ppc' = IF LoopCondition(0) THEN "do" ELSE "done"
    /\ ret' = IF LoopCondition(0) THEN ret ELSE AfterLoop
    /\ UNCHANGED <<maxRetries, ctx, lastErr, wake, hist, waited, waitCancelled>>

\* mutant of DoReturn: a failure that is retried is retried at once, without
\* the wait
DoReturnNoWait(r) ==
    /\ ppc = "do"
    /\ hist' = Append(hist, r)
    /\ IF IsFailure(r)
       THEN /\ lastErr' = FailureErr(r)
            /\ IF FailureRetry(attempt, r)
               THEN /\ ppc' = "do"
                    /\ attempt' = attempt + 1
                    /\ ret' = ret
               ELSE /\ ppc' = "done"
                    /\ ret' = Failed(FailureErr(r))
                    /\ attempt' = attempt
       ELSE /\ ppc' = "done"
            /\ ret' = Decode(r.body)
            /\ UNCHANGED <<lastErr, attempt>>
    /\ UNCHANGED <<maxRetries, ctx, waited, wake, waitCancelled>>

\* mutant of DoReturn: lastErr keeps the error of the first failed attempt
DoReturnFirstError(r) ==
    /\ ppc = "do"
    /\ hist' = Append(hist, r)
    /\ IF IsFailure(r)
       THEN /\ lastErr' = IF lastErr = NoError THEN FailureErr(r) ELSE lastErr
            /\ IF FailureRetry(attempt, r)
               THEN /\ ppc' = "wait"
                    /\ waited' = waited \cup {Len(hist) + 1}
                    /\ wake' = IF ctx = "live" THEN "none" ELSE "ctx"
                    /\ ret' = ret
               ELSE /\ ppc' = "done"
                    /\ ret' = Failed(IF lastErr = NoError THEN FailureErr(r) ELSE lastErr)
                    /\ UNCHANGED <<waited, wake>>
       ELSE /\ ppc' = "done"
            /\ ret' = Decode(r.body)
            /\ UNCHANGED <<lastErr, waited, wake>>
    /\ UNCHANGED <<maxRetries, ctx, attempt, waitCancelled>>

\* httpClient.Do and io.ReadAll return r: the rest of the loop body
DoReturn(r) ==
    /\ ppc = "do"
    /\ hist' = Append(hist, r)
    /\ IF IsFailure(r)
       THEN /\ lastErr' = FailureErr(r)
            /\ IF FailureRetry(attempt, r)
               THEN \* waitRetry is entered; a context that is done wakes it at once
                    /\ ppc' = "wait"
                    /\ waited' = waited \cup {Len(hist) + 1}
                    /\ wake' = IF ctx = "live" THEN "none" ELSE "ctx"
                    /\ ret' = ret
               ELSE /\ ppc' = "done"
                    /\ ret' = Failed(FailureErr(r))
                    /\ UNCHANGED <<waited, wake>>
       ELSE /\ ppc' = "done"
            /\ ret' = Decode(r.body)
            /\ UNCHANGED <<lastErr, waited, wake>>
    /\ UNCHANGED <<maxRetries, ctx, attempt, waitCancelled>>

\* the timer of waitRetry fires while the call is parked in the select
TimerFires ==
    /\ ppc = "wait"
    /\ wake = "none"
    /\ wake' = "timer"
    /\ UNCHANGED <<maxRetries, ctx, ppc, attempt, lastErr, ret, hist, waited,
                   waitCancelled>>

\* the caller cancels, or the caller's deadline passes; a call parked in the
\* select of waitRetry is woken by ctx.Done()
Cancel(c) ==
    /\ ctx = "live"
    /\ ppc # "done"
    /\ ctx' = c
    /\ wake' = IF ppc = "wait" /\ wake = "none" THEN "ctx" ELSE wake
    /\ waitCancelled' = IF ppc = "wait" /\ wake = "none" THEN Len(hist) ELSE waitCancelled
    /\ UNCHANGED <<maxRetries, ppc, attempt, lastErr, ret, hist, waited>>

\* mutant of waitRetry: the wait sleeps the delay out whatever the context does
waitRetrySleeps ==
    /\ ppc = "wait"
    /\ wake # "none"
    /\ attempt' = attempt + 1
    /\ ppc' = IF LoopCondition(attempt + 1) THEN "do" ELSE "done"
    /\ ret' = IF LoopCondition(attempt + 1) THEN ret ELSE AfterLoop
    /\ wake' = "none"
    /\ UNCHANGED <<maxRetries, ctx, lastErr, hist, waited, waitCancelled>>

\* waitRetry returns: ctx.Err() ends the call, nil continues the loop; after the
\* loop lastErr is returned
waitRetry ==
    /\ ppc = "wait"
    /\ wake # "none"
    /\ IF wake = "ctx"
       THEN /\ ppc' = "done"
            /\ ret' = Failed(CtxErr(ctx))
            /\ attempt' = attempt
       ELSE /\ attempt' = attempt + 1
            /\ ppc' = IF LoopCondition(attempt + 1) THEN "do" ELSE "done"
            /\ ret' = IF LoopCondition(attempt + 1) THEN ret ELSE AfterLoop
    /\ wake' = "none"
    /\ UNCHANGED <<maxRetries, ctx, lastErr, hist, waited, waitCancelled>>

(***************************************************************************)
(* 64-bit integers.  TLC's integers have 32 bits, so a time.Duration is a  *)
(* sequence of 64 bits, lowest first, in two's complement, and a natural   *)
(* number of any size is a sequence of bits, lowest first.                 *)
(***************************************************************************)
\* the bits of a natural number below 2^31
NatBits(n) == [i \in 1..31 |-> (n \div 2^(i - 1)) % 2]

\* b * 2^k, exactly
ShiftLeft(b, k) == [i \in 1..(Len(b) + k) |-> IF i <= k THEN 0 ELSE b[i - k]]

\* the low 64 bits of b: b modulo 2^64
Low64(b) == [i \in 1..64 |-> IF i <= Len(b) THEN b[i] ELSE 0]

\* whether an int64 is below zero
Negative(d) == d[64] = 1

\* b without its leading zero bits
RECURSIVE Trim(_)
Trim(b) ==
    IF b = <<>> \/ b[Len(b)] = 1 THEN b ELSE Trim(SubSeq(b, 1, Len(b) - 1))

\* a < b, for natural numbers
Less(a, b) ==
    LET ta == Trim(a)
        tb == Trim(b)
    IN  IF Len(ta) # Len(tb) THEN Len(ta) < Len(tb)
        ELSE \E i \in 1..Len(ta) :
                /\ ta[i] < tb[i]
                /\ \A j \in (i + 1)..Len(ta) : ta[j] = tb[j]

\* a > b, for two int64
Greater64(a, b) ==
    IF Negative(a) # Negative(b) THEN Negative(b) ELSE Less(b, a)

\* n nanoseconds (n < 2^31) and ms milliseconds (ms * 10^6 = ms * 15625 * 2^6)
Nanoseconds(n) == Low64(NatBits(n))

Milliseconds(ms) == Low64(ShiftLeft(NatBits(ms * 15625), 6))

\* 8 * time.Second
EightSeconds == Milliseconds(8000)

\* baseDelay * time.Duration(1 << attempt) in int64: 1 << attempt is 2^attempt
\* modulo 2^64 (0 from attempt 64 on), and so is the product
ShiftedDelay(baseDelay, att) == Low64(ShiftLeft(baseDelay, att))

\* the delay of waitRetry: lines 1087-1090
Delay(baseDelay, att) ==
    IF Greater64(ShiftedDelay(baseDelay, att), EightSeconds)
    THEN EightSeconds
    ELSE ShiftedDelay(baseDelay, att)

\* values of retryBackoff: 1 ns, 1 ms, the default 500 ms, 3 s, 8 s
BaseDelays ==
    {Nanoseconds(1), Milliseconds(1), Milliseconds(500), Milliseconds(3000),
     Milliseconds(8000)}

NoDelay == <<>>

\* one more failed attempt of a call: waitRetry computes its delay
WaitDelay ==
    /\ wAttempt <= MaxAttempt
    /\ prevDelay' = delay
    /\ delay' = Delay(retryBackoff, wAttempt)
    /\ wAttempt' = wAttempt + 1
    /\ UNCHANGED retryBackoff

\* the variables of the delay while no delay is modelled
(***************************************************************************)
(* The batch handlers: knows_batch_answer and                              *)
(* knows_batch_get_evidence_details.  The handler starts one goroutine per *)
(* sub-request; indices count from 1 here and from 0 in the source.        *)
(***************************************************************************)
BatchTools == {"knows_batch_answer", "knows_batch_get_evidence_details"}

QuestionIDs == <<"q-1", "q-2", "q-3">>

AnswerTypes == <<"CLINICAL", "RESEARCH">>

EvidenceIDs == <<"ev-1", "ev-2", "ev-3">>

EvidenceTypes == <<"PAPER", "GUIDE">>

Cycle(seq, i) == seq[((i - 1) % Len(seq)) + 1]

\* what parseBatchAnswerRequests and parseBatchEvidenceRequests return for a
\* well-formed list of n sub-requests
ParsedRequests(tl, n) ==
    IF tl = "knows_batch_answer"
    THEN [i \in 1..n |-> [QuestionID |-> Cycle(QuestionIDs, i),
                          AnswerType |-> Cycle(AnswerTypes, i)]]
    ELSE [i \in 1..n |-> [EvidenceID |-> Cycle(EvidenceIDs, i),
                          Type |-> Cycle(EvidenceTypes, i)]]

\* the results slice as make() leaves it
NilItem == [nil |-> TRUE]

\* what the underlying call (knowsClient.answer, knowsClient.fetchEvidenceDetail)
\* can return for a sub-request: the server's payload for it, or an error
Payload(req) == [t |-> "payload", of |-> req]

CallErrors == {StatusFailed(503)}

CallOutcomes(req) ==
    {[ok |-> TRUE, data |-> Payload(req), err |-> NoError]}
        \cup {Failed(e) : e \in CallErrors}

\* mutant of Item: the data key is set on the error path too
ItemDataOnError(tl, req, out) ==
    IF tl = "knows_batch_answer"
    THEN IF out.ok
         THEN [question_id |-> req.QuestionID, status |-> "success", data |-> out.data]
         ELSE [question_id |-> req.QuestionID, status |-> "error", error |-> out.err,
               data |-> out.data]
    ELSE IF out.ok
         THEN [evidence_id |-> req.EvidenceID, type |-> req.Type,
               status |-> "success", data |-> out.data]
         ELSE [evidence_id |-> req.EvidenceID, type |-> req.Type,
               status |-> "error", error |-> out.err, data |-> out.data]

\* the map a goroutine builds for its sub-request from data, err
Item(tl, req, out) ==
    IF tl = "knows_batch_answer"
    THEN IF out.ok
         THEN [question_id |-> req.QuestionID, status |-> "success", data |-> out.data]
         ELSE [question_id |-> req.QuestionID, status |-> "error", error |-> out.err]
    ELSE IF out.ok
         THEN [evidence_id |-> req.EvidenceID, type |-> req.Type,
               status |-> "success", data |-> out.data]
         ELSE [evidence_id |-> req.EvidenceID, type |-> req.Type,
               status |-> "error", error |-> out.err]

\* the handler has parsed its arguments into reqs: the channels and the
\* results slice are made
BatchBegin(tl, reqs) ==
    /\ bpc = "idle"
    /\ tool' = tl
    /\ requests' = reqs
    /\ results' = [i \in 1..Len(reqs) |-> NilItem]
    /\ wpc' = [i \in 1..Len(reqs) |-> "none"]
    /\ called' = [i \in 1..Len(reqs) |-> NotReturned]
    /\ ch' = <<>>
    /\ sem' = 0
    /\ wg' = 0
    /\ spawned' = 0
    /\ bpc' = "spawn"
    /\ UNCHANGED <<batchConcurrency, chClosed, sendOrder, bret>>

\* the handler is called with a well-formed list of n sub-requests
BatchStart(tl, n) == BatchBegin(tl, ParsedRequests(tl, n))

\* one iteration of the handler's loop: wg.Add(1) and the go statement
Spawn ==
    /\ bpc = "spawn"
    /\ spawned < Len(requests)
    /\ wg' = wg + 1
    /\ wpc' = [wpc EXCEPT ![spawned + 1] = "acquire"]
    /\ spawned' = spawned + 1
    /\ bpc' = IF spawned + 1 = Len(requests) THEN "wait" ELSE "spawn"
    /\ UNCHANGED <<tool, batchConcurrency, requests, sem, ch, chClosed, results,
                   called, sendOrder, bret>>

\* mutant of Acquire: the channel sem holds one element more
AcquireOneMore(i) ==
    /\ wpc[i] = "acquire"
    /\ sem < batchConcurrency + 1
    /\ sem' = sem + 1
    /\ wpc' = [wpc EXCEPT ![i] = "call"]
    /\ UNCHANGED <<tool, batchConcurrency, requests, bpc, spawned, ch, chClosed, wg,
                   results, called, sendOrder, bret>>

\* mutant of Acquire: a goroutine that finds the context done gives up its
\* sub-request
AcquireUnlessDone(i) ==
    /\ wpc[i] = "acquire"
    /\ IF ctx = "live"
       THEN /\ sem < batchConcurrency
            /\ sem' = sem + 1
            /\ wpc' = [wpc EXCEPT ![i] = "call"]
            /\ wg' = wg
       ELSE /\ sem' = sem
            /\ wg' = wg - 1
            /\ wpc' = [wpc EXCEPT ![i] = "exit"]
    /\ UNCHANGED <<tool, batchConcurrency, requests, bpc, spawned, ch, chClosed,
                   results, called, sendOrder, bret>>

\* sem <- struct{}{}: blocks while the channel is full
Acquire(i) ==
    /\ wpc[i] = "acquire"
    /\ sem < batchConcurrency
    /\ sem' = sem + 1
    /\ wpc' = [wpc EXCEPT ![i] = "call"]
    /\ UNCHANGED <<tool, batchConcurrency, requests, bpc, spawned, ch, chClosed, wg,
                   results, called, sendOrder, bret>>

\* the underlying call of goroutine i returns data, err
CallReturn(i, out) ==
    /\ wpc[i] = "call"
    /\ called' = [called EXCEPT ![i] = out]
    /\ wpc' = [wpc EXCEPT ![i] = "send"]
    /\ UNCHANGED <<tool, batchConcurrency, requests, bpc, spawned, sem, ch, chClosed,
                   wg, results, sendOrder, bret>>

\* mutant of Send: the channel ch is made with room for batchConcurrency items
SendSmallBuffer(i) ==
    /\ wpc[i] = "send"
    /\ ~chClosed
    /\ Len(ch) < batchConcurrency
    /\ ch' = Append(ch, [index |-> i, data |-> Item(tool, requests[i], called[i])])
    /\ sendOrder' = Append(sendOrder, i)
    /\ wpc' = [wpc EXCEPT ![i] = "release"]
    /\ UNCHANGED <<tool, batchConcurrency, requests, bpc, spawned, sem, chClosed, wg,
                   results, called, bret>>

\* ch <- batchResult{index: i, data: item}: blocks while the channel is full
Send(i) ==
    /\ wpc[i] = "send"
    /\ ~chClosed
    /\ Len(ch) < Len(requests)
    /\ ch' = Append(ch, [index |-> i, data |-> Item(tool, requests[i], called[i])])
    /\ sendOrder' = Append(sendOrder, i)
    /\ wpc' = [wpc EXCEPT ![i] = "release"]
    /\ UNCHANGED <<tool, batchConcurrency, requests, bpc, spawned, sem, chClosed, wg,
                   results, called, bret>>

\* the goroutine returns and its deferred calls run: <-sem, then wg.Done().
\* Nothing of the goroutine lies between the two, and wg.Done() commutes with
\* every step of the other goroutines, so they are one step here.
Release(i) ==
    /\ wpc[i] = "release"
    /\ sem > 0
    /\ sem' = sem - 1
    /\ wg' = wg - 1
    /\ wpc' = [wpc EXCEPT ![i] = "exit"]
    /\ UNCHANGED <<tool, batchConcurrency, requests, bpc, spawned, ch, chClosed,
                   results, called, sendOrder, bret>>

\* mutant of WgWait: the handler does not wait for the counter to reach zero
WgWaitNoWait ==
    /\ bpc = "wait"
    /\ bpc' = "close"
    /\ UNCHANGED <<tool, batchConcurrency, requests, spawned, wpc, sem, ch, chClosed,
                   wg, results, called, sendOrder, bret>>

\* wg.Wait() returns
WgWait ==
    /\ bpc = "wait"
    /\ wg = 0
    /\ bpc' = "close"
    /\ UNCHANGED <<tool, batchConcurrency, requests, spawned, wpc, sem, ch, chClosed,
                   wg, results, called, sendOrder, bret>>

\* close(ch)
CloseCh ==
    /\ bpc = "close"
    /\ chClosed' = TRUE
    /\ bpc' = "drain"
    /\ UNCHANGED <<tool, batchConcurrency, requests, spawned, wpc, sem, ch, wg,
                   results, called, sendOrder, bret>>

\* mutant of Drain: the items are stored in the order of their arrival
DrainArrivalOrder ==
    /\ bpc = "drain"
    /\ IF ch # <<>>
       THEN /\ results' = [results EXCEPT
                              ![Len(requests) - Len(ch) + 1] = Head(ch).data]
            /\ ch' = Tail(ch)
            /\ UNCHANGED <<bpc, bret>>
       ELSE /\ chClosed
            /\ bpc' = "returned"
            /\ bret' = results
            /\ UNCHANGED <<results, ch>>
    /\ UNCHANGED <<tool, batchConcurrency, requests, spawned, wpc, sem, chClosed, wg,
                   called, sendOrder>>

\* one iteration of for item := range ch, or its end and the return of results
Drain ==
    /\ bpc = "drain"
    /\ IF ch # <<>>
       THEN /\ results' = [results EXCEPT ![Head(ch).index] = Head(ch).data]
            /\ ch' = Tail(ch)
            /\ UNCHANGED <<bpc, bret>>
       ELSE /\ chClosed
            /\ bpc' = "returned"
            /\ bret' = results
            /\ UNCHANGED <<results, ch>>
    /\ UNCHANGED <<tool, batchConcurrency, requests, spawned, wpc, sem, chClosed, wg,
                   called, sendOrder>>

\* the variables of postJSON while no call of it is modelled
(***************************************************************************)
(* knowsDetailCache.  Get and Set run under the cache's mutex from their   *)
(* first statement to their last, so each is one step.                     *)
(***************************************************************************)
CacheKeys == {"PAPER:ev-1:false", "PAPER:ev-1:true", "GUIDE:ev-1:false"}

CacheValues == {"v1", "v2"}

NoEntries == [k \in {} |-> 0]

NoGet == [key |-> "none", found |-> FALSE, value |-> "nil",
          wasSet |-> FALSE, setValue |-> "nil", elapsed |-> 0]

NoSet == [key |-> "none", existed |-> FALSE, full |-> FALSE, evicted |-> <<>>]

\* the keys of seq that are not keys of m, each with what lastSet says of it
RECURSIVE Evicted(_, _)
Evicted(seq, m) ==
    IF seq = <<>> THEN <<>>
    ELSE IF Head(seq) \in DOMAIN m THEN Evicted(Tail(seq), m)
    ELSE <<[key |-> Head(seq), at |-> lastSet[Head(seq)].at,
            since |-> lastSet[Head(seq)].since]>>
         \o Evicted(Tail(seq), m)

\* m without key k
Without(m, k) == [x \in (DOMAIN m) \ {k} |-> m[x]]

\* m with key k bound to e
With(m, k, e) == [x \in (DOMAIN m) \cup {k} |-> IF x = k THEN e ELSE m[x]]

\* seq without its first element equal to key
RECURSIVE RemoveFirst(_, _)
RemoveFirst(seq, key) ==
    IF seq = <<>> THEN <<>>
    ELSE IF Head(seq) = key THEN Tail(seq)
    ELSE <<Head(seq)>> \o RemoveFirst(Tail(seq), key)

\* mutant of deleteLocked: the key stays in c.order
deleteLockedKeepsOrder(c, key) ==
    [entries |-> Without(c.entries, key), order |-> c.order]

\* knowsDetailCache.deleteLocked
deleteLocked(c, key) ==
    [entries |-> Without(c.entries, key), order |-> RemoveFirst(c.order, key)]

\* mutant of EvictOldest: room is made only once the capacity is exceeded
RECURSIVE EvictOldestLate(_)
EvictOldestLate(c) ==
    IF Cardinality(DOMAIN c.entries) > maxEntries /\ Len(c.order) > 0
    THEN EvictOldestLate([entries |-> Without(c.entries, Head(c.order)),
                          order |-> Tail(c.order)])
    ELSE c

\* mutant of EvictOldest: the key inserted last is evicted
RECURSIVE EvictNewest(_)
EvictNewest(c) ==
    IF Cardinality(DOMAIN c.entries) >= maxEntries /\ Len(c.order) > 0
    THEN EvictNewest([entries |-> Without(c.entries, c.order[Len(c.order)]),
                      order |-> SubSeq(c.order, 1, Len(c.order) - 1)])
    ELSE c

\* the loop of Set that makes room: lines 213-217
RECURSIVE EvictOldest(_)
EvictOldest(c) ==
    IF Cardinality(DOMAIN c.entries) >= maxEntries /\ Len(c.order) > 0
    THEN EvictOldest([entries |-> Without(c.entries, Head(c.order)),
                      order |-> Tail(c.order)])
    ELSE c

\* the keys an action removed from the cache
Removed(after) == (DOMAIN entries) \ (DOMAIN after)

\* mutant of Get: an expired entry is reported absent but stays in the cache
GetKeepsExpired(key) ==
    /\ got' = [key |-> key,
               found |-> key \in DOMAIN entries /\ ~(now > entries[key].expiresAt),
               value |-> IF key \in DOMAIN entries /\ ~(now > entries[key].expiresAt)
                         THEN entries[key].value ELSE "nil",
               wasSet |-> key \in DOMAIN lastSet,
               setValue |-> IF key \in DOMAIN lastSet THEN lastSet[key].value ELSE "nil",
               elapsed |-> IF key \in DOMAIN lastSet THEN now - lastSet[key].at ELSE 0]
    /\ UNCHANGED <<entries, order, lastSet>>
    /\ did' = NoSet
    /\ UNCHANGED <<ttl, maxEntries, now>>

\* knowsDetailCache.Get
Get(key) ==
    /\ got' = [key |-> key,
               found |-> key \in DOMAIN entries /\ ~(now > entries[key].expiresAt),
               value |-> IF key \in DOMAIN entries /\ ~(now > entries[key].expiresAt)
                         THEN entries[key].value ELSE "nil",
               wasSet |-> key \in DOMAIN lastSet,
               setValue |-> IF key \in DOMAIN lastSet THEN lastSet[key].value ELSE "nil",
               elapsed |-> IF key \in DOMAIN lastSet THEN now - lastSet[key].at ELSE 0]
    /\ IF key \in DOMAIN entries /\ now > entries[key].expiresAt
       THEN LET c == deleteLocked([entries |-> entries, order |-> order], key)
            IN  /\ entries' = c.entries
                /\ order' = c.order
                /\ lastSet' = [k \in (DOMAIN lastSet) \ Removed(c.entries) |-> lastSet[k]]
       ELSE UNCHANGED <<entries, order, lastSet>>
    /\ did' = NoSet
    /\ UNCHANGED <<ttl, maxEntries, now>>

\* mutant of Set: the entry expires at the time it is stored
SetForgetsTTL(key, value) ==
    /\ IF maxEntries <= 0
       THEN UNCHANGED <<entries, order>>
       ELSE LET c == IF key \notin DOMAIN entries
                     THEN LET e == EvictOldest([entries |-> entries, order |-> order])
                          IN  [entries |-> e.entries, order |-> Append(e.order, key)]
                     ELSE [entries |-> entries, order |-> order]
            IN  /\ entries' = With(c.entries, key,
                                   [value |-> value, expiresAt |-> now])
                /\ order' = c.order
    /\ lastSet' = LET kept == [k \in (DOMAIN lastSet) \ Removed(entries') |-> lastSet[k]]
                  IN  With(kept, key,
                           [value |-> value, at |-> now,
                            since |-> IF key \in DOMAIN entries /\ key \in DOMAIN lastSet
                                      THEN lastSet[key].since ELSE now])
    /\ did' = [key |-> key,
               existed |-> key \in DOMAIN entries,
               full |-> Cardinality(DOMAIN entries) >= maxEntries,
               evicted |-> Evicted(order, entries')]
    /\ got' = NoGet
    /\ UNCHANGED <<ttl, maxEntries, now>>

\* mutant of Set: a Set of a present key moves the key to the end of order
SetRenews(key, value) ==
    /\ IF maxEntries <= 0
       THEN UNCHANGED <<entries, order>>
       ELSE LET c == IF key \notin DOMAIN entries
                     THEN LET e == EvictOldest([entries |-> entries, order |-> order])
                          IN  [entries |-> e.entries, order |-> Append(e.order, key)]
                     ELSE [entries |-> entries,
                           order |-> Append(RemoveFirst(order, key), key)]
            IN  /\ entries' = With(c.entries, key,
                                   [value |-> value, expiresAt |-> now + ttl])
                /\ order' = c.order
    /\ lastSet' = LET kept == [k \in (DOMAIN lastSet) \ Removed(entries') |-> lastSet[k]]
                  IN  With(kept, key,
                           [value |-> value, at |-> now,
                            since |-> IF key \in DOMAIN entries /\ key \in DOMAIN lastSet
                                      THEN lastSet[key].since ELSE now])
    /\ did' = [key |-> key,
               existed |-> key \in DOMAIN entries,
               full |-> Cardinality(DOMAIN entries) >= maxEntries,
               evicted |-> Evicted(order, entries')]
    /\ got' = NoGet
    /\ UNCHANGED <<ttl, maxEntries, now>>

\* mutant of Set: the capacity is not looked at before the lock is taken
SetIgnoresDisabled(key, value) ==
    /\ IF FALSE
       THEN UNCHANGED <<entries, order>>
       ELSE LET c == IF key \notin DOMAIN entries
                     THEN LET e == EvictOldest([entries |-> entries, order |-> order])
                          IN  [entries |-> e.entries, order |-> Append(e.order, key)]
                     ELSE [entries |-> entries, order |-> order]
            IN  /\ entries' = With(c.entries, key,
                                   [value |-> value, expiresAt |-> now + ttl])
                /\ order' = c.order
    /\ lastSet' = LET kept == [k \in (DOMAIN lastSet) \ Removed(entries') |-> lastSet[k]]
                  IN  With(kept, key,
                           [value |-> value, at |-> now,
                            since |-> IF key \in DOMAIN entries /\ key \in DOMAIN lastSet
                                      THEN lastSet[key].since ELSE now])
    /\ did' = [key |-> key,
               existed |-> key \in DOMAIN entries,
               full |-> Cardinality(DOMAIN entries) >= maxEntries,
               evicted |-> Evicted(order, entries')]
    /\ got' = NoGet
    /\ UNCHANGED <<ttl, maxEntries, now>>

\* mutant of Set: the entries that have expired are removed before room is made
SetPurgesExpired(key, value) ==
    /\ IF maxEntries <= 0
       THEN UNCHANGED <<entries, order>>
       ELSE LET live == {k \in DOMAIN entries : ~(now > entries[k].expiresAt)}
                p == [entries |-> [k \in live |-> entries[k]],
                      order |-> SelectSeq(order, LAMBDA k : k \in live)]
                c == IF key \notin DOMAIN p.entries
                     THEN LET e == EvictOldest(p)
                          IN  [entries |-> e.entries, order |-> Append(e.order, key)]
                     ELSE p
            IN  /\ entries' = With(c.entries, key,
                                   [value |-> value, expiresAt |-> now + ttl])
                /\ order' = c.order
    /\ lastSet' = LET kept == [k \in (DOMAIN lastSet) \ Removed(entries') |-> lastSet[k]]
                  IN  With(kept, key,
                           [value |-> value, at |-> now,
                            since |-> IF key \in DOMAIN entries /\ key \in DOMAIN lastSet
                                      THEN lastSet[key].since ELSE now])
    /\ did' = [key |-> key,
               existed |-> key \in DOMAIN entries,
               full |-> Cardinality(DOMAIN entries) >= maxEntries,
               evicted |-> Evicted(order, entries')]
    /\ got' = NoGet
    /\ UNCHANGED <<ttl, maxEntries, now>>

\* knowsDetailCache.Set
Set(key, value) ==
    /\ IF maxEntries <= 0
       THEN UNCHANGED <<entries, order>>
       ELSE LET c == IF key \notin DOMAIN entries
                     THEN LET e == EvictOldest([entries |-> entries, order |-> order])
                          IN  [entries |-> e.entries, order |-> Append(e.order, key)]
                     ELSE [entries |-> entries, order |-> order]
            IN  /\ entries' = With(c.entries, key,
                                   [value |-> value, expiresAt |-> now + ttl])
                /\ order' = c.order
    /\ lastSet' = LET kept == [k \in (DOMAIN lastSet) \ Removed(entries') |-> lastSet[k]]
                  IN  With(kept, key,
                           [value |-> value, at |-> now,
                            since |-> IF key \in DOMAIN entries /\ key \in DOMAIN lastSet
                                      THEN lastSet[key].since ELSE now])
    /\ did' = [key |-> key,
               existed |-> key \in DOMAIN entries,
               full |-> Cardinality(DOMAIN entries) >= maxEntries,
               evicted |-> Evicted(order, entries')]
    /\ got' = NoGet
    /\ UNCHANGED <<ttl, maxEntries, now>>

\* time passes
Tick ==
    /\ now < MaxTime
    /\ now' = now + 1
    /\ got' = NoGet
    /\ did' = NoSet
    /\ UNCHANGED <<entries, order, ttl, maxEntries, lastSet>>

\* the variables of the cache while no cache is modelled
(***************************************************************************)
(* Get and Set called by several goroutines: one action per statement      *)
(* between Lock and Unlock.                                                *)
(***************************************************************************)
Goroutines == 1..MaxGoroutines

\* the calls of goroutine g: the first goroutine stores "v1", the others "v2"
CacheOps(g) ==
    [op : {"Get"}, key : CacheKeys, value : {"nil"}]
        \cup [op : {"Set"}, key : CacheKeys, value : {IF g = 1 THEN "v1" ELSE "v2"}]

NoOp == [op |-> "none", key |-> "none", value |-> "nil"]

NoEntry == [ok |-> FALSE, value |-> "nil", expiresAt |-> 0]

NoResult == [found |-> FALSE, value |-> "nil"]

NoSerial == [cache |-> [entries |-> NoEntries, order |-> <<>>], ret |-> NoResult]

\* the positions between Lock and Unlock
Region == {"read", "expiry", "delete", "cut", "exists", "room", "append", "write",
           "unlock"}

\* entries and order after a whole Set at time t
SetResult(c, key, value, t) ==
    IF maxEntries <= 0 THEN c
    ELSE LET d == IF key \notin DOMAIN c.entries
                  THEN LET e == EvictOldest(c)
                       IN  [entries |-> e.entries, order |-> Append(e.order, key)]
                  ELSE c
         IN  [entries |-> With(d.entries, key, [value |-> value, expiresAt |-> t + ttl]),
              order |-> d.order]

\* entries and order after a whole Get at time t
GetResult(c, key, t) ==
    IF key \in DOMAIN c.entries /\ t > c.entries[key].expiresAt
    THEN deleteLocked(c, key)
    ELSE c

\* what a whole Get at time t returns
GetValue(c, key, t) ==
    IF key \in DOMAIN c.entries /\ ~(t > c.entries[key].expiresAt)
    THEN [found |-> TRUE, value |-> c.entries[key].value]
    ELSE NoResult

\* goroutine g calls Get or Set and comes to c.mu.Lock()
Call(g) ==
    /\ gpc[g] = "idle"
    /\ gpc' = [gpc EXCEPT ![g] = "lock"]
    /\ UNCHANGED <<cacheVars, mu, gop, gentry, gret, serial>>

\* mutant of Lock: the lock is taken whoever holds it
LockNoWait(g, o) ==
    /\ gpc[g] = "lock"
    /\ ~(o.op = "Set" /\ maxEntries <= 0)
    /\ mu' = g
    /\ gpc' = [gpc EXCEPT ![g] = IF o.op = "Get" THEN "read" ELSE "exists"]
    /\ gop' = [gop EXCEPT ![g] = o]
    /\ UNCHANGED <<cacheVars, gentry, gret, serial>>

\* c.mu.Lock() returns in the call o of goroutine g.  The arguments of the
\* call are drawn here: nothing reads them before.  A Set of a cache without
\* capacity returns before it locks and is left out.
Lock(g, o) ==
    /\ gpc[g] = "lock"
    /\ ~(o.op = "Set" /\ maxEntries <= 0)
    /\ mu = 0
    /\ mu' = g
    /\ gpc' = [gpc EXCEPT ![g] = IF o.op = "Get" THEN "read" ELSE "exists"]
    /\ gop' = [gop EXCEPT ![g] = o]
    /\ UNCHANGED <<cacheVars, gentry, gret, serial>>

\* Get: entry, ok := c.entries[key]; a missing key returns
GetRead(g) ==
    /\ gpc[g] = "read"
    /\ LET key == gop[g].key
       IN  IF key \in DOMAIN entries
           THEN /\ gentry' = [gentry EXCEPT ![g] =
                                [ok |-> TRUE, value |-> entries[key].value,
                                 expiresAt |-> entries[key].expiresAt]]
                /\ gpc' = [gpc EXCEPT ![g] = "expiry"]
                /\ UNCHANGED <<gret, serial>>
           ELSE /\ gret' = [gret EXCEPT ![g] = NoResult]
                /\ gpc' = [gpc EXCEPT ![g] = "unlock"]
                /\ serial' = [cache |-> GetResult(serial.cache, key, now),
                               ret |-> GetValue(serial.cache, key, now)]
                /\ UNCHANGED gentry
    /\ UNCHANGED <<cacheVars, mu, gop>>

\* Get: time.Now().After(entry.expiresAt)
GetExpiry(g) ==
    /\ gpc[g] = "expiry"
    /\ IF now > gentry[g].expiresAt
       THEN /\ gpc' = [gpc EXCEPT ![g] = "delete"]
            /\ UNCHANGED gret
       ELSE /\ gpc' = [gpc EXCEPT ![g] = "unlock"]
            /\ gret' = [gret EXCEPT ![g] = [found |-> TRUE, value |-> gentry[g].value]]
    /\ serial' = [cache |-> GetResult(serial.cache, gop[g].key, now),
                   ret |-> GetValue(serial.cache, gop[g].key, now)]
    /\ UNCHANGED <<cacheVars, mu, gop, gentry>>

\* deleteLocked: delete(c.entries, key)
GetDelete(g) ==
    /\ gpc[g] = "delete"
    /\ entries' = Without(entries, gop[g].key)
    /\ gpc' = [gpc EXCEPT ![g] = "cut"]
    /\ UNCHANGED <<order, ttl, maxEntries, now, lastSet, got, did>>
    /\ UNCHANGED <<mu, gop, gentry, gret, serial>>

\* deleteLocked: the loop that cuts the key out of c.order; Get returns
GetCut(g) ==
    /\ gpc[g] = "cut"
    /\ order' = RemoveFirst(order, gop[g].key)
    /\ gret' = [gret EXCEPT ![g] = NoResult]
    /\ gpc' = [gpc EXCEPT ![g] = "unlock"]
    /\ UNCHANGED <<entries, ttl, maxEntries, now, lastSet, got, did>>
    /\ UNCHANGED <<mu, gop, gentry, serial>>

\* Set: _, exists := c.entries[key]
SetExists(g) ==
    /\ gpc[g] = "exists"
    /\ gpc' = [gpc EXCEPT ![g] = IF gop[g].key \in DOMAIN entries THEN "write" ELSE "room"]
    /\ UNCHANGED <<cacheVars, mu, gop, gentry, gret, serial>>

\* Set: the condition of the loop that makes room, and one turn of it
SetRoom(g) ==
    /\ gpc[g] = "room"
    /\ IF Cardinality(DOMAIN entries) >= maxEntries /\ Len(order) > 0
       THEN /\ order' = Tail(order)
            /\ entries' = Without(entries, Head(order))
            /\ UNCHANGED gpc
       ELSE /\ gpc' = [gpc EXCEPT ![g] = "append"]
            /\ UNCHANGED <<entries, order>>
    /\ UNCHANGED <<ttl, maxEntries, now, lastSet, got, did>>
    /\ UNCHANGED <<mu, gop, gentry, gret, serial>>

\* Set: c.order = append(c.order, key)
SetAppend(g) ==
    /\ gpc[g] = "append"
    /\ order' = Append(order, gop[g].key)
    /\ gpc' = [gpc EXCEPT ![g] = "write"]
    /\ UNCHANGED <<entries, ttl, maxEntries, now, lastSet, got, did>>
    /\ UNCHANGED <<mu, gop, gentry, gret, serial>>

\* Set: c.entries[key] = knowsCacheEntry{value, time.Now().Add(c.ttl)}
SetWrite(g) ==
    /\ gpc[g] = "write"
    /\ entries' = With(entries, gop[g].key,
                       [value |-> gop[g].value, expiresAt |-> now + ttl])
    /\ gpc' = [gpc EXCEPT ![g] = "unlock"]
    /\ serial' = [cache |-> SetResult(serial.cache, gop[g].key, gop[g].value, now),
                   ret |-> serial.ret]
    /\ UNCHANGED <<order, ttl, maxEntries, now, lastSet, got, did>>
    /\ UNCHANGED <<mu, gop, gentry, gret>>

\* the deferred c.mu.Unlock(); the call returns
Unlock(g) ==
    /\ gpc[g] = "unlock"
    /\ mu' = 0
    /\ gpc' = [gpc EXCEPT ![g] = "idle"]
    /\ gop' = [gop EXCEPT ![g] = NoOp]
    /\ gentry' = [gentry EXCEPT ![g] = NoEntry]
    /\ gret' = [gret EXCEPT ![g] = NoResult]
    /\ serial' = [serial EXCEPT !.ret = NoResult]
    /\ UNCHANGED cacheVars

(***************************************************************************)
(* The detail lookups getPaperEN, getPaperCN, getGuide and getMeeting and  *)
(* their dispatch fetchEvidenceDetail, called one after the other.         *)
(***************************************************************************)
SupportedKinds == {"PAPER", "PAPER_CN", "GUIDE", "MEETING"}

\* the list the error of fetchEvidenceDetail quotes
AllowedKinds == <<"PAPER", "PAPER_CN", "GUIDE", "MEETING">>

\* translate *bool: nil, or a pointer to false or to true
TranslateFlags == {"nil", "false", "true"}

LookupRequests ==
    [kind : {"PAPER"}, id : {"ev-1"}, translate : TranslateFlags]
        \cup [kind : {"PAPER_CN", "GUIDE", "MEETING", "AUDIO", "paper"},
              id : {"ev-1"}, translate : {"nil"}]

NoRequest == [kind |-> "none", id |-> "none", translate |-> "nil"]

NoLookup == [status |-> "none", req |-> NoRequest, data |-> JsonNull, err |-> NoError,
             cached |-> FALSE, attempts |-> 0]

\* mutant of CacheKey: a flag that is nil has a key of its own
CacheKeyOfPointer(q) ==
    q.kind \o ":" \o q.id \o ":"
        \o (IF q.kind = "PAPER_CN" THEN "false" ELSE q.translate)

\* fmt.Sprintf("PAPER:%s:%t", ...) and its like; getPaperCN takes no flag
CacheKey(q) ==
    q.kind \o ":" \o q.id \o ":"
        \o (IF q.kind # "PAPER_CN" /\ q.translate = "true" THEN "true" ELSE "false")

\* the error of the default case of fetchEvidenceDetail
UnsupportedType(kind) ==
    [msg |-> "unsupported evidence type", status |-> 0, cause |-> "nil",
     quoted |-> kind, allowed |-> AllowedKinds]

\* the payload of the lookup's request: evidence_id, and translate_to_chinese
\* when the method has the parameter and the pointer is not nil
DetailPayload(q) ==
    [evidence_id |-> q.id,
     translate_to_chinese |-> IF q.kind = "PAPER_CN" \/ q.translate = "nil"
                              THEN "absent" ELSE q.translate]

\* the document the server answers a lookup with: that of the kind, for the
\* payload it was sent
Detail(q) == [t |-> "object", name |-> q.kind, sent |-> DetailPayload(q)]

\* what the server can answer to the request of lookup q: the document in an
\* envelope, a status the call retries, a status it does not, or the error of
\* a context that is done
LookupResponses(c, q) ==
    {[err |-> "nil", status |-> 200, readErr |-> "nil",
      body |-> [kind |-> "json",
                doc |-> [t |-> "object", fields |-> {"data"}, data |-> Detail(q)]]]}
    \cup {[err |-> "nil", status |-> st, readErr |-> "nil", body |-> [kind |-> "blank"]] :
            st \in {404, 503}}
    \cup {[err |-> e, status |-> 0, readErr |-> "nil", body |-> [kind |-> "blank"]] :
            e \in CtxErrors \cap {c}}

\* mutant of getDetail: the cache is asked and postJSON is called all the same
getDetailAlwaysFetches(q) ==
    /\ Get(CacheKey(q))
    /\ PostStart
    /\ lret' = NoLookup
    /\ lpc' = "fetch"
    /\ lreq' = q

\* getPaperEN, getPaperCN, getGuide, getMeeting up to the call of postJSON:
\* the cache is asked, and a hit returns
getDetail(q) ==
    /\ Get(CacheKey(q))
    /\ IF got'.found
       THEN /\ lret' = [status |-> "ok", req |-> q, data |-> got'.value, err |-> NoError,
                        cached |-> TRUE, attempts |-> 0]
            /\ lpc' = "idle"
            /\ lreq' = NoRequest
            /\ UNCHANGED postVars
       ELSE /\ PostStart
            /\ lret' = NoLookup
            /\ lpc' = "fetch"
            /\ lreq' = q

\* mutant of fetchEvidenceDetail: a kind that is not known is looked up too
fetchEvidenceDetailAnyKind(q) ==
    /\ lpc = "idle"
    /\ getDetail(q)

\* fetchEvidenceDetail
fetchEvidenceDetail(q) ==
    /\ lpc = "idle"
    /\ IF q.kind \in SupportedKinds
       THEN getDetail(q)
       ELSE /\ lret' = [status |-> "error", req |-> q, data |-> JsonNull,
                        err |-> UnsupportedType(q.kind), cached |-> FALSE,
                        attempts |-> 0]
            /\ UNCHANGED <<postVars, cacheVars, lpc, lreq>>

\* the caller's context ends while the lookup is in postJSON
LookupCancel(c) ==
    /\ lpc = "fetch"
    /\ Cancel(c)
    /\ UNCHANGED <<cacheVars, lookupVars>>

\* mutant of getDetailReturn: what postJSON returned is stored whether it
\* failed or not
getDetailStoresFailure ==
    /\ lpc = "fetch"
    /\ ppc = "done"
    /\ Set(CacheKey(lreq), ret.data)
    /\ lret' = [status |-> IF ret.ok THEN "ok" ELSE "error", req |-> lreq,
                data |-> ret.data, err |-> ret.err, cached |-> FALSE,
                attempts |-> Len(hist)]
    /\ lpc' = "idle"
    /\ lreq' = NoRequest
    /\ ctx' = "live" /\ ppc' = "idle" /\ attempt' = 0 /\ lastErr' = NoError
    /\ wake' = "none" /\ ret' = NotReturned /\ hist' = <<>> /\ waited' = {}
    /\ waitCancelled' = 0
    /\ UNCHANGED maxRetries

\* the lookup after postJSON has returned: an error is returned as it is, data
\* is stored in the cache and returned; the next lookup gets a context of its
\* own
getDetailReturn ==
    /\ lpc = "fetch"
    /\ ppc = "done"
    /\ IF ret.ok
       THEN Set(CacheKey(lreq), ret.data)
       ELSE UNCHANGED cacheVars
    /\ lret' = [status |-> IF ret.ok THEN "ok" ELSE "error", req |-> lreq,
                data |-> ret.data, err |-> ret.err, cached |-> FALSE,
                attempts |-> Len(hist)]
    /\ lpc' = "idle"
    /\ lreq' = NoRequest
    /\ ctx' = "live" /\ ppc' = "idle" /\ attempt' = 0 /\ lastErr' = NoError
    /\ wake' = "none" /\ ret' = NotReturned /\ hist' = <<>> /\ waited' = {}
    /\ waitCancelled' = 0
    /\ UNCHANGED maxRetries

\* time passes between lookups or during one
LookupTick ==
    /\ Tick
    /\ lret' = NoLookup
    /\ UNCHANGED <<postVars, lpc, lreq>>

(***************************************************************************)
(* The arguments of a tool and their validation by the handlers.           *)
(***************************************************************************)
\* the values of args, as json.Unmarshal makes them; Absent stands for a key
\* the map does not hold
Absent == [t |-> "absent"]

Null == [t |-> "null"]

Str(s) == [t |-> "string", s |-> s]

Num(n) == [t |-> "number", n |-> n]

Bool(b) == [t |-> "bool", b |-> b]

Arr(items) == [t |-> "array", items |-> items]

Obj(fields) == [t |-> "object", fields |-> fields]

NoArgs == [k \in {} |-> Absent]

NoField == [list |-> "", index |-> 0, name |-> ""]

\* raw, ok := args[key]
Has(args, key) == key \in DOMAIN args /\ args[key] # Absent

\* the strings of the model
ArgStrings == {"", " ", "ev-1", " ev-1 ", "CLINICAL", "clinical", "POETRY", "PAPER",
               "paper", "AUDIO", "true", "yes", "7"}

\* strings.TrimSpace on the strings of the model
TrimSpace(s) ==
    CASE s = " " -> ""
      [] s = " ev-1 " -> "ev-1"
      [] s = " key " -> "key"
      [] s = " GUIDE " -> "GUIDE"
      [] OTHER -> s

\* strings.ToUpper on the strings of the model
ToUpper(s) ==
    CASE s = "clinical" -> "CLINICAL"
      [] s = "paper" -> "PAPER"
      [] s = "true" -> "TRUE"
      [] s = "yes" -> "YES"
      [] OTHER -> s

\* strconv.ParseBool: the strings it takes for true and for false
ParseBoolTrue == {"1", "t", "T", "TRUE", "true", "True"}

ParseBoolFalse == {"0", "f", "F", "FALSE", "false", "False"}

\* strconv.ParseInt(s, 10, 64) on the strings of the model: ok, and the number
ParseInt(s) == IF s = "7" THEN [ok |-> TRUE, n |-> 7] ELSE [ok |-> FALSE, n |-> 0]

\* knowsAllowedAnswerTypes
AllowedAnswerTypes == {"CLINICAL", "RESEARCH", "POPULAR_SCIENCE"}

\* an error made by fmt.Errorf: msg is the format, key the %s it begins with,
\* index the %d, quoted the %q, and names the field and list names its text
\* holds
NilError == [msg |-> "nil", key |-> "", index |-> -1, quoted |-> "", names |-> {}]

\* fmt.Errorf(format, key) for a format that begins with %s
KeyError(format, key) ==
    [msg |-> format, key |-> key, index |-> -1, quoted |-> "", names |-> {key}]

\* fmt.Errorf("%s[%d]: %w", i, err) with the list's name written in the format
\* (i counts from 0)
ItemError(list, i, err) ==
    [msg |-> list \o "[%d]: " \o err.msg, key |-> err.key, index |-> i,
     quoted |-> err.quoted, names |-> {list} \cup err.names]

\* a function's results: err, and the value when err is nil
Fail(err) == [err |-> err, val |-> "nil"]

Ok(val) == [err |-> NilError, val |-> val]

getRequiredString(args, key) ==
    IF ~Has(args, key) THEN Fail(KeyError("%s is required", key))
    ELSE IF args[key].t # "string" THEN Fail(KeyError("%s must be a non-empty string", key))
    ELSE IF TrimSpace(args[key].s) = ""
         THEN Fail(KeyError("%s must be a non-empty string", key))
    ELSE Ok(TrimSpace(args[key].s))

getOptionalString(args, key) ==
    IF ~Has(args, key) \/ args[key] = Null THEN Ok("")
    ELSE IF args[key].t # "string" THEN Fail(KeyError("%s must be a string", key))
    ELSE Ok(TrimSpace(args[key].s))

\* the pointer is written as in lreq.translate: "nil", "false", "true"
getOptionalBoolPointer(args, key) ==
    IF ~Has(args, key) \/ args[key] = Null THEN Ok("nil")
    ELSE IF args[key].t = "bool" THEN Ok(IF args[key].b THEN "true" ELSE "false")
    ELSE IF args[key].t = "string"
         THEN IF TrimSpace(args[key].s) \in ParseBoolTrue THEN Ok("true")
              ELSE IF TrimSpace(args[key].s) \in ParseBoolFalse THEN Ok("false")
              ELSE Fail(KeyError("%s must be a boolean", key))
    ELSE Fail(KeyError("%s must be a boolean", key))

\* the pointer is [nil |-> TRUE] or [nil |-> FALSE, n |-> the number]
getOptionalInt64(args, key) ==
    IF ~Has(args, key) \/ args[key] = Null THEN Ok([nil |-> TRUE])
    ELSE IF args[key].t = "number" THEN Ok([nil |-> FALSE, n |-> args[key].n])
    ELSE IF args[key].t = "string"
         THEN IF ParseInt(TrimSpace(args[key].s)).ok
              THEN Ok([nil |-> FALSE, n |-> ParseInt(TrimSpace(args[key].s)).n])
              ELSE Fail(KeyError("%s must be an integer", key))
    ELSE Fail(KeyError("%s must be an integer", key))

getRequiredArray(args, key) ==
    IF ~Has(args, key) THEN Fail(KeyError("%s is required", key))
    ELSE IF args[key].t # "array" THEN Fail(KeyError("%s must be an array", key))
    ELSE Ok(args[key].items)

\* the loop of getOptionalStringArray from item i on (counted from 1), out
\* being what it has appended
RECURSIVE StringItems(_, _, _, _)
StringItems(key, items, i, out) ==
    IF i > Len(items) THEN Ok(out)
    ELSE IF items[i].t # "string"
         THEN Fail([msg |-> "%s[%d] must be a string", key |-> key, index |-> i - 1,
                    quoted |-> "", names |-> {key}])
    ELSE IF TrimSpace(items[i].s) = "" THEN StringItems(key, items, i + 1, out)
    ELSE StringItems(key, items, i + 1, Append(out, TrimSpace(items[i].s)))

getOptionalStringArray(args, key) ==
    IF ~Has(args, key) \/ args[key] = Null THEN Ok(<<>>)
    ELSE IF args[key].t = "array" THEN StringItems(key, args[key].items, 1, <<>>)
    ELSE Fail(KeyError("%s must be an array of strings", key))

normalizeDataScope(scope) ==
    IF ToUpper(TrimSpace(scope)) = ""
    THEN Fail([NilError EXCEPT !.msg = "data scope must be non-empty"])
    ELSE IF ToUpper(TrimSpace(scope)) \notin SupportedKinds
         THEN Fail([NilError EXCEPT
                      !.msg = "unsupported data scope %q; allowed: PAPER, PAPER_CN, GUIDE, MEETING",
                      !.quoted = scope])
    ELSE Ok(ToUpper(TrimSpace(scope)))

\* the loop of normalizeDataScopes from scope i on, out being what it has
\* appended (seen is the set of the elements of out)
RECURSIVE NormalizedScopes(_, _, _)
NormalizedScopes(scopes, i, out) ==
    IF i > Len(scopes) THEN Ok(out)
    ELSE IF normalizeDataScope(scopes[i]).err # NilError THEN normalizeDataScope(scopes[i])
    ELSE IF normalizeDataScope(scopes[i]).val \in {out[j] : j \in DOMAIN out}
         THEN NormalizedScopes(scopes, i + 1, out)
    ELSE NormalizedScopes(scopes, i + 1, Append(out, normalizeDataScope(scopes[i]).val))

\* mutant of normalizeDataScopes: a value seen before is appended again
normalizeDataScopesKeepsAll(scopes) ==
    IF Len(scopes) = 0 THEN Ok(<<>>)
    ELSE IF NormalizedScopes(scopes, 1, <<>>).err # NilError
         THEN NormalizedScopes(scopes, 1, <<>>)
    ELSE Ok([i \in DOMAIN scopes |-> normalizeDataScope(scopes[i]).val])

normalizeDataScopes(scopes) ==
    IF Len(scopes) = 0 THEN Ok(<<>>) ELSE NormalizedScopes(scopes, 1, <<>>)

normalizeAnswerType(answerType) ==
    IF ToUpper(TrimSpace(answerType)) = ""
    THEN Fail([NilError EXCEPT !.msg = "answer_type must be non-empty",
                               !.names = {"answer_type"}])
    ELSE IF ToUpper(TrimSpace(answerType)) \notin AllowedAnswerTypes
         THEN Fail([NilError EXCEPT
                      !.msg = "unsupported answer_type %q; allowed: CLINICAL, RESEARCH, POPULAR_SCIENCE",
                      !.quoted = answerType, !.names = {"answer_type"}])
    ELSE Ok(ToUpper(TrimSpace(answerType)))

\* the loop of parseBatchAnswerRequests from item i on, and its end
RECURSIVE AnswerItems(_, _, _)
AnswerItems(items, i, out) ==
    IF i > Len(items)
    THEN IF Len(out) = 0
         THEN Fail([NilError EXCEPT !.msg = "requests must not be empty",
                                    !.names = {"requests"}])
         ELSE Ok(out)
    ELSE IF items[i].t # "object"
         THEN Fail([NilError EXCEPT !.msg = "requests[%d] must be an object",
                                    !.index = i - 1, !.names = {"requests"}])
    ELSE LET questionID == getRequiredString(items[i].fields, "question_id")
             answerType == getRequiredString(items[i].fields, "answer_type")
             normalized == normalizeAnswerType(answerType.val)
         IN  IF questionID.err # NilError
             THEN Fail(ItemError("requests", i - 1, questionID.err))
             ELSE IF answerType.err # NilError
                  THEN Fail(ItemError("requests", i - 1, answerType.err))
             ELSE IF normalized.err # NilError
                  THEN Fail(ItemError("requests", i - 1, normalized.err))
             ELSE AnswerItems(items, i + 1,
                              Append(out, [QuestionID |-> questionID.val,
                                           AnswerType |-> normalized.val]))

parseBatchAnswerRequests(args) ==
    IF getRequiredArray(args, "requests").err # NilError
    THEN getRequiredArray(args, "requests")
    ELSE AnswerItems(getRequiredArray(args, "requests").val, 1, <<>>)

\* the loop of parseBatchEvidenceRequests from item i on, and its end
RECURSIVE EvidenceItems(_, _, _)
EvidenceItems(items, i, out) ==
    IF i > Len(items)
    THEN IF Len(out) = 0
         THEN Fail([NilError EXCEPT !.msg = "evidences must not be empty",
                                    !.names = {"evidences"}])
         ELSE Ok(out)
    ELSE IF items[i].t # "object"
         THEN Fail([NilError EXCEPT !.msg = "evidences[%d] must be an object",
                                    !.index = i - 1, !.names = {"evidences"}])
    ELSE LET evidenceID == getRequiredString(items[i].fields, "evidence_id")
             evidenceType == getRequiredString(items[i].fields, "type")
             normalized == normalizeDataScope(evidenceType.val)
         IN  IF evidenceID.err # NilError
             THEN Fail(ItemError("evidences", i - 1, evidenceID.err))
             ELSE IF evidenceType.err # NilError
                  THEN Fail(ItemError("evidences", i - 1, evidenceType.err))
             ELSE IF normalized.err # NilError
                  THEN Fail(ItemError("evidences", i - 1, normalized.err))
             ELSE EvidenceItems(items, i + 1,
                                Append(out, [EvidenceID |-> evidenceID.val,
                                             Type |-> normalized.val]))

parseBatchEvidenceRequests(args) ==
    IF getRequiredArray(args, "evidences").err # NilError
    THEN getRequiredArray(args, "evidences")
    ELSE EvidenceItems(getRequiredArray(args, "evidences").val, 1, <<>>)

(***************************************************************************)
(* NewKnowsTools: the settings it takes from the options.                  *)
(***************************************************************************)
\* time.Second, the durations of the settings being counted in milliseconds
Second == 1000

defaultKnowsRequestTimeout == 120 * Second

defaultKnowsMaxRetries == 3

defaultKnowsRetryBackoff == 500

defaultKnowsBatchLimit == 5

defaultKnowsCacheTTL == 3600 * Second

defaultKnowsCacheEntries == 500

\* knowsAllDataScopes
knowsAllDataScopes == <<"PAPER", "PAPER_CN", "GUIDE", "MEETING">>

\* strings.TrimRight(s, "/") on the base URLs of the model
TrimRightSlash(s) == IF s = "https://knows.example/" THEN "https://knows.example" ELSE s

NoOptions == [APIKey |-> "", APIBaseURL |-> "", DefaultDataScope |-> <<>>,
              RequestTimeout |-> 0, MaxRetries |-> 0, RetryBackoff |-> 0,
              BatchConcurrency |-> 0, CacheTTL |-> 0, CacheMaxEntries |-> 0]

\* NewKnowsTools has not been called
NotBuilt == [err |-> "none", cause |-> NilError, tools |-> 0]

\* NewKnowsTools returned nil and an error
NewFailed(msg, cause) == [err |-> msg, cause |-> cause, tools |-> 0]

\* mutant of NewKnowsTools: the key and the base URL are taken as they are
NewKnowsToolsUntrimmed(o) ==
    IF o.APIKey = "" THEN NewFailed("knows api_key is required", NilError)
    ELSE IF o.APIBaseURL = ""
         THEN NewFailed("knows api_base_url is required", NilError)
    ELSE IF normalizeDataScopes(o.DefaultDataScope).err # NilError
         THEN NewFailed("invalid knows default_data_scope: %w",
                        normalizeDataScopes(o.DefaultDataScope).err)
    ELSE [err |-> "nil", cause |-> NilError, tools |-> 13,
          apiKey |-> o.APIKey,
          baseURL |-> TrimRightSlash(o.APIBaseURL),
          defaultDataScope |->
              IF Len(normalizeDataScopes(o.DefaultDataScope).val) = 0
              THEN knowsAllDataScopes
              ELSE normalizeDataScopes(o.DefaultDataScope).val,
          timeout |-> IF o.RequestTimeout <= 0 THEN defaultKnowsRequestTimeout
                      ELSE o.RequestTimeout,
          maxRetries |-> IF o.MaxRetries < 0 THEN defaultKnowsMaxRetries
                         ELSE o.MaxRetries,
          retryBackoff |-> IF o.RetryBackoff <= 0 THEN defaultKnowsRetryBackoff
                           ELSE o.RetryBackoff,
          batchConcurrency |-> IF o.BatchConcurrency <= 0 THEN defaultKnowsBatchLimit
                               ELSE o.BatchConcurrency,
          cacheTTL |-> IF o.CacheTTL <= 0 THEN defaultKnowsCacheTTL ELSE o.CacheTTL,
          cacheEntries |-> IF o.CacheMaxEntries <= 0 THEN defaultKnowsCacheEntries
                           ELSE o.CacheMaxEntries]

\* NewKnowsTools: the error, or the settings of the client, the cache and the
\* factory behind the 13 tools it returns
NewKnowsTools(o) ==
    IF TrimSpace(o.APIKey) = "" THEN NewFailed("knows api_key is required", NilError)
    ELSE IF TrimSpace(o.APIBaseURL) = ""
         THEN NewFailed("knows api_base_url is required", NilError)
    ELSE IF normalizeDataScopes(o.DefaultDataScope).err # NilError
         THEN NewFailed("invalid knows default_data_scope: %w",
                        normalizeDataScopes(o.DefaultDataScope).err)
    ELSE [err |-> "nil", cause |-> NilError, tools |-> 13,
          apiKey |-> TrimSpace(o.APIKey),
          baseURL |-> TrimRightSlash(TrimSpace(o.APIBaseURL)),
          defaultDataScope |->
              IF Len(normalizeDataScopes(o.DefaultDataScope).val) = 0
              THEN knowsAllDataScopes
              ELSE normalizeDataScopes(o.DefaultDataScope).val,
          timeout |-> IF o.RequestTimeout <= 0 THEN defaultKnowsRequestTimeout
                      ELSE o.RequestTimeout,
          maxRetries |-> IF o.MaxRetries < 0 THEN defaultKnowsMaxRetries
                         ELSE o.MaxRetries,
          retryBackoff |-> IF o.RetryBackoff <= 0 THEN defaultKnowsRetryBackoff
                           ELSE o.RetryBackoff,
          batchConcurrency |-> IF o.BatchConcurrency <= 0 THEN defaultKnowsBatchLimit
                               ELSE o.BatchConcurrency,
          cacheTTL |-> IF o.CacheTTL <= 0 THEN defaultKnowsCacheTTL ELSE o.CacheTTL,
          cacheEntries |-> IF o.CacheMaxEntries <= 0 THEN defaultKnowsCacheEntries
                           ELSE o.CacheMaxEntries]

\* the options of the model: keys and base URLs that are empty, blank or set,
\* default scopes that are unset, canonical, in need of normalisation or
\* unknown, and each numeric setting negative, zero or positive
ScopeLists == {<<>>, <<"GUIDE", "PAPER">>, <<"MEETING", "PAPER_CN", "GUIDE">>,
               <<"paper", "MEETING", "PAPER">>, <<"AUDIO">>, <<"PAPER", "AUDIO">>,
               <<"PAPER", " ">>}

NumericSettings == {-1, 0, MaxSetting}

Options ==
    [APIKey : {"", " ", " key "}, APIBaseURL : {"", " ", "https://knows.example/"},
     DefaultDataScope : ScopeLists,
     RequestTimeout : NumericSettings, MaxRetries : NumericSettings,
     RetryBackoff : NumericSettings, BatchConcurrency : NumericSettings,
     CacheTTL : NumericSettings, CacheMaxEntries : NumericSettings]

\* the call of NewKnowsTools
Construct ==
    /\ factory = NotBuilt
    /\ factory' = NewKnowsTools(opts)
    /\ UNCHANGED opts

\* the call of the client a handler makes: the method and its arguments
ClientCall(fn, a) == Ok([fn |-> fn, args |-> a])

\* mutant of aiSearchHandler: a search without a scope takes the baked-in list
aiSearchHandlerAllScopes(args) ==
    LET question == getRequiredString(args, "question")
        scope == getOptionalStringArray(args, "data_scope")
        normalizedScope == normalizeDataScopes(IF Len(scope.val) = 0
                                               THEN knowsAllDataScopes
                                               ELSE scope.val)
    IN  IF question.err # NilError THEN question
        ELSE IF scope.err # NilError THEN scope
        ELSE IF normalizedScope.err # NilError THEN normalizedScope
        ELSE ClientCall("aiSearch", <<question.val, normalizedScope.val>>)

\* the handlers, up to their call of the client: the error they return, or the
\* call they make
aiSearchHandler(args) ==
    LET question == getRequiredString(args, "question")
        scope == getOptionalStringArray(args, "data_scope")
        normalizedScope == normalizeDataScopes(IF Len(scope.val) = 0
                                               THEN factory.defaultDataScope
                                               ELSE scope.val)
    IN  IF question.err # NilError THEN question
        ELSE IF scope.err # NilError THEN scope
        ELSE IF normalizedScope.err # NilError THEN normalizedScope
        ELSE ClientCall("aiSearch", <<question.val, normalizedScope.val>>)

answerHandler(args) ==
    LET questionID == getRequiredString(args, "question_id")
        answerType == getRequiredString(args, "answer_type")
        normalized == normalizeAnswerType(answerType.val)
    IN  IF questionID.err # NilError THEN questionID
        ELSE IF answerType.err # NilError THEN answerType
        ELSE IF normalized.err # NilError THEN normalized
        ELSE ClientCall("answer", <<questionID.val, normalized.val>>)

batchAnswerHandler(args) ==
    LET reqs == parseBatchAnswerRequests(args)
    IN  IF reqs.err # NilError THEN reqs
        ELSE ClientCall("batch", <<reqs.val, "nil">>)

\* knows_evidence_summary, knows_evidence_highlight and knows_get_paper_cn
evidenceHandler(fn, args) ==
    LET evidenceID == getRequiredString(args, "evidence_id")
    IN  IF evidenceID.err # NilError THEN evidenceID
        ELSE ClientCall(fn, <<evidenceID.val, "nil">>)

\* knows_get_paper_en, knows_get_guide and knows_get_meeting
translatedHandler(fn, args) ==
    LET evidenceID == getRequiredString(args, "evidence_id")
        translate == getOptionalBoolPointer(args, "translate_to_chinese")
    IN  IF evidenceID.err # NilError THEN evidenceID
        ELSE IF translate.err # NilError THEN translate
        ELSE ClientCall(fn, <<evidenceID.val, translate.val>>)

autoTaggingHandler(args) ==
    LET taggingType == getRequiredString(args, "tagging_type")
        content == getOptionalString(args, "content")
        evidenceID == getOptionalString(args, "evidence_id")
    IN  IF taggingType.err # NilError THEN taggingType
        ELSE IF content.err # NilError THEN content
        ELSE IF evidenceID.err # NilError THEN evidenceID
        ELSE ClientCall("autoTagging", <<content.val, evidenceID.val, taggingType.val>>)

\* knows_list_question and knows_list_interpretation
listHandler(fn, args) ==
    LET fromTime == getOptionalInt64(args, "from_time")
        toTime == getOptionalInt64(args, "to_time")
        page == getOptionalInt64(args, "page")
        pageSize == getOptionalInt64(args, "page_size")
    IN  IF fromTime.err # NilError THEN fromTime
        ELSE IF toTime.err # NilError THEN toTime
        ELSE IF page.err # NilError THEN page
        ELSE IF pageSize.err # NilError THEN pageSize
        ELSE ClientCall(fn, <<fromTime.val, toTime.val, page.val, pageSize.val>>)

batchGetEvidenceDetailsHandler(args) ==
    LET evidences == parseBatchEvidenceRequests(args)
        translate == getOptionalBoolPointer(args, "translate_to_chinese")
    IN  IF evidences.err # NilError THEN evidences
        ELSE IF translate.err # NilError THEN translate
        ELSE ClientCall("batch", <<evidences.val, translate.val>>)

ToolNames == {"knows_ai_search", "knows_answer", "knows_batch_answer",
              "knows_evidence_summary", "knows_evidence_highlight",
              "knows_get_paper_en", "knows_get_paper_cn", "knows_get_guide",
              "knows_get_meeting", "knows_auto_tagging", "knows_list_question",
              "knows_list_interpretation", "knows_batch_get_evidence_details"}

\* t.handler(ctx, args) of the tool called name, up to its call of the client
Handler(name, args) ==
    CASE name = "knows_ai_search" -> aiSearchHandler(args)
      [] name = "knows_answer" -> answerHandler(args)
      [] name = "knows_batch_answer" -> batchAnswerHandler(args)
      [] name = "knows_evidence_summary" -> evidenceHandler("evidenceSummary", args)
      [] name = "knows_evidence_highlight" -> evidenceHandler("evidenceHighlight", args)
      [] name = "knows_get_paper_en" -> translatedHandler("getPaperEN", args)
      [] name = "knows_get_paper_cn" -> evidenceHandler("getPaperCN", args)
      [] name = "knows_get_guide" -> translatedHandler("getGuide", args)
      [] name = "knows_get_meeting" -> translatedHandler("getMeeting", args)
      [] name = "knows_auto_tagging" -> autoTaggingHandler(args)
      [] name = "knows_list_question" -> listHandler("listQuestion", args)
      [] name = "knows_list_interpretation" -> listHandler("listInterpretation", args)
      [] name = "knows_batch_get_evidence_details" -> batchGetEvidenceDetailsHandler(args)

\* a bag of arguments each tool accepts
WellFormed(name) ==
    CASE name = "knows_ai_search" ->
            [question |-> Str("q-1"), data_scope |-> Arr(<<Str("PAPER")>>)]
      [] name = "knows_answer" ->
            [question_id |-> Str("q-1"), answer_type |-> Str("CLINICAL")]
      [] name = "knows_batch_answer" ->
            [requests |-> Arr(<<Obj([question_id |-> Str("q-1"),
                                     answer_type |-> Str("CLINICAL")]),
                                Obj([question_id |-> Str("q-2"),
                                     answer_type |-> Str("clinical")])>>)]
      [] name \in {"knows_evidence_summary", "knows_evidence_highlight",
                   "knows_get_paper_cn"} ->
            [evidence_id |-> Str("ev-1")]
      [] name \in {"knows_get_paper_en", "knows_get_guide", "knows_get_meeting"} ->
            [evidence_id |-> Str("ev-1"), translate_to_chinese |-> Absent]
      [] name = "knows_auto_tagging" ->
            [tagging_type |-> Str("DISEASE"), content |-> Str("text"),
             evidence_id |-> Absent]
      [] name \in {"knows_list_question", "knows_list_interpretation"} ->
            [from_time |-> Absent, to_time |-> Absent, page |-> Num(1),
             page_size |-> Num(20)]
      [] name = "knows_batch_get_evidence_details" ->
            [evidences |-> Arr(<<Obj([evidence_id |-> Str("ev-1"), type |-> Str("PAPER")]),
                                 Obj([evidence_id |-> Str("ev-2"), type |-> Str("paper")])>>),
             translate_to_chinese |-> Absent]

\* the values a caller can give a field
RawValues ==
    {Absent, Null, Num(7), Bool(TRUE), Bool(FALSE)}
        \cup {Str(s) : s \in ArgStrings}
        \cup {Arr(<<>>), Arr(<<Str("PAPER")>>), Arr(<<Str("AUDIO")>>),
              Arr(<<Str("GUIDE"), Str("PAPER")>>),
              Arr(<<Str("paper"), Str(" "), Str("PAPER"), Str("GUIDE")>>),
              Arr(<<Str(" GUIDE "), Str("paper"), Str("GUIDE"), Str("PAPER")>>),
              Arr(<<Str("PAPER"), Num(7)>>), Obj([evidence_id |-> Str("ev-1")])}

\* the fields of a bag that hold a list of sub-requests
ListFields(args) == {f \in DOMAIN args : args[f].t = "array" /\ f \in {"requests", "evidences"}}

\* the calls of the tool called name: its well-formed bag, and that bag with
\* one field, one sub-request or one field of one sub-request given another
\* value
ToolCalls(name) ==
    LET w == WellFormed(name)
    IN  {[name |-> name, field |-> NoField, args |-> w]}
        \cup {[name |-> name, field |-> [list |-> "", index |-> 0, name |-> f],
               args |-> [w EXCEPT ![f] = v]] :
                f \in DOMAIN w, v \in RawValues}
        \cup {[name |-> name, field |-> [list |-> l, index |-> i, name |-> ""],
               args |-> [w EXCEPT ![l] = Arr([w[l].items EXCEPT ![i] = v])]] :
                l \in ListFields(w), i \in 1..2, v \in RawValues \ {Absent}}
        \cup UNION {{[name |-> name, field |-> [list |-> l, index |-> i, name |-> f],
                      args |-> [w EXCEPT ![l] =
                                  Arr([w[l].items EXCEPT ![i] =
                                         Obj([w[l].items[i].fields EXCEPT ![f] = v])])]] :
                        f \in DOMAIN w[l].items[1].fields, v \in RawValues} :
                    l \in ListFields(w), i \in 1..2}

NoCall == [fn |-> "none", args |-> <<>>]

NoReturn == [status |-> "none", err |-> NilError, call |-> NoCall]

\* the kind of evidence each lookup of the client fetches
LookupKind(fn) ==
    CASE fn = "getPaperEN" -> "PAPER"
      [] fn = "getPaperCN" -> "PAPER_CN"
      [] fn = "getGuide" -> "GUIDE"
      [] fn = "getMeeting" -> "MEETING"
      [] OTHER -> "none"

\* the handler calls the client: a batch handler starts its goroutines, a
\* lookup asks the cache and on a miss calls postJSON, the others call postJSON
ClientStart(call) ==
    IF call.fn = "batch"
    THEN /\ BatchBegin(tname, call.args[1])
         /\ UNCHANGED <<postVars, cacheVars, lookupVars>>
    ELSE IF LookupKind(call.fn) # "none"
    THEN /\ lpc = "idle"
         /\ getDetail([kind |-> LookupKind(call.fn), id |-> call.args[1],
                       translate |-> call.args[2]])
         /\ UNCHANGED batchVars
    ELSE /\ PostStart
         /\ UNCHANGED <<batchVars, cacheVars, lookupVars>>

\* Execute has not returned
NoToolResult == [kind |-> "none"]

\* ErrorResult(err.Error()).WithError(err): the result is flagged as an error
\* and carries the message of err, written here as err itself
ErrorResult(err) == [kind |-> "error", IsError |-> TRUE, ForLLM |-> err, Err |-> err]

\* NewToolResult(string(payload)): the result carries the text and no flag
NewToolResult(payload) == [kind |-> "result", IsError |-> FALSE, ForLLM |-> payload]

\* json.Marshal(result): the text, written as [json |-> the value it encodes].
\* What a handler returns is a value that encoding/json decoded, or a list of
\* maps of strings and such values, and json.Marshal encodes each of them.
Marshal(v) == [err |-> "nil", payload |-> [json |-> v]]

\* the error of Execute for a result that json.Marshal rejects
SerializeFailed(cause) ==
    [msg |-> "failed to serialize knows response: %v", status |-> 0, cause |-> cause]

\* mutant of Execute: the client is called before the arguments are looked at
ExecuteCallsFirst ==
    /\ tpc = "called"
    /\ IF Handler(tname, targs).err # NilError
       THEN /\ tret' = [status |-> "error", err |-> Handler(tname, targs).err,
                        call |-> NoCall]
            /\ tpc' = "returned"
            /\ tout' = ErrorResult(Handler(tname, targs).err)
            /\ PostStart
            /\ UNCHANGED <<batchVars, cacheVars, lookupVars>>
       ELSE /\ tret' = [status |-> "calling", err |-> NilError,
                        call |-> Handler(tname, targs).val]
            /\ tpc' = "client"
            /\ tout' = tout
            /\ ClientStart(Handler(tname, targs).val)
    /\ UNCHANGED <<tname, targs, tfield>>

\* knowsTool.Execute up to the handler's call of the client: the handler
\* validates args and returns the first error, or calls the client
Execute ==
    /\ tpc = "called"
    /\ IF Handler(tname, targs).err # NilError
       THEN /\ tret' = [status |-> "error", err |-> Handler(tname, targs).err,
                        call |-> NoCall]
            /\ tpc' = "returned"
            /\ tout' = ErrorResult(Handler(tname, targs).err)
            /\ UNCHANGED <<postVars, batchVars, cacheVars, lookupVars>>
       ELSE /\ tret' = [status |-> "calling", err |-> NilError,
                        call |-> Handler(tname, targs).val]
            /\ tpc' = "client"
            /\ tout' = tout
            /\ ClientStart(Handler(tname, targs).val)
    /\ UNCHANGED <<tname, targs, tfield>>

(***************************************************************************)
(* The goroutines of knows_batch_get_evidence_details: each calls          *)
(* fetchEvidenceDetail, which asks the cache, on a miss calls postJSON     *)
(* with its retries, and stores what it got.  The goroutines share the     *)
(* cache, its lock and the context of the call.                            *)
(***************************************************************************)
\* the arguments of the fetchEvidenceDetail of goroutine i
FetchRequest(i) ==
    [kind |-> requests[i].Type, id |-> requests[i].EvidenceID, translate |-> ftranslate]

\* the method a case of the switch of fetchEvidenceDetail calls
ClientMethod(kind) ==
    CASE kind = "PAPER" -> "getPaperEN"
      [] kind = "PAPER_CN" -> "getPaperCN"
      [] kind = "GUIDE" -> "getGuide"
      [] kind = "MEETING" -> "getMeeting"

NoClientCall == [fn |-> "none", id |-> "none", translate |-> "none"]

\* the call a case of the switch makes: getPaperCN has no parameter translate
DetailCall(q) ==
    [fn |-> ClientMethod(q.kind), id |-> q.id,
     translate |-> IF q.kind = "PAPER_CN" THEN "none" ELSE q.translate]

\* fetchEvidenceDetail returns out to goroutine i
FetchReturn(i, out) ==
    /\ CallReturn(i, out)
    /\ fpc' = [fpc EXCEPT ![i] = "done"]

\* mutant of Dispatch: every sub-request is looked up as a PAPER
DispatchAsPaper(i) ==
    /\ wpc[i] = "call"
    /\ fpc[i] = "none"
    /\ fcall' = [fcall EXCEPT ![i] = DetailCall([FetchRequest(i) EXCEPT !.kind = "PAPER"])]
    /\ fpc' = [fpc EXCEPT ![i] = "get"]
    /\ Call(i)
    /\ UNCHANGED <<batchVars, fatt, fres>>
    /\ UNCHANGED <<postVars, ftranslate>>

\* goroutine i calls fetchEvidenceDetail: the switch, and the method it
\* calls comes to cache.Get
Dispatch(i) ==
    /\ wpc[i] = "call"
    /\ fpc[i] = "none"
    /\ IF FetchRequest(i).kind \in SupportedKinds
       THEN /\ fcall' = [fcall EXCEPT ![i] = DetailCall(FetchRequest(i))]
            /\ fpc' = [fpc EXCEPT ![i] = "get"]
            /\ Call(i)
            /\ UNCHANGED <<batchVars, fatt, fres>>
       ELSE /\ FetchReturn(i, Failed(UnsupportedType(FetchRequest(i).kind)))
            /\ UNCHANGED <<cacheVars, concVars, fcall, fatt, fres>>
    /\ UNCHANGED <<postVars, ftranslate>>

\* the key of the cache the method called for goroutine i uses
FetchKey(i) ==
    CacheKey([kind |-> LookupKind(fcall[i].fn), id |-> fcall[i].id,
              translate |-> fcall[i].translate])

\* c.mu.Lock() returns in the Get or the Set of goroutine i
CacheLock(i) ==
    /\ fpc[i] \in {"get", "set"}
    /\ Lock(i, IF fpc[i] = "get"
               THEN [op |-> "Get", key |-> FetchKey(i), value |-> "nil"]
               ELSE [op |-> "Set", key |-> FetchKey(i), value |-> fres[i].data])

\* mutant of GetReturn: Get returns with the lock held
GetReturnKeepsLock(i) ==
    /\ fpc[i] = "get"
    /\ gpc[i] = "unlock"
    /\ gpc' = [gpc EXCEPT ![i] = "idle"]
    /\ UNCHANGED <<cacheVars, mu, gop, gentry, gret, serial>>
    /\ IF gret[i].found
       THEN /\ FetchReturn(i, [ok |-> TRUE, data |-> gret[i].value, err |-> NoError])
            /\ UNCHANGED <<fatt, fres>>
       ELSE /\ fpc' = [fpc EXCEPT ![i] = "do"]
            /\ UNCHANGED <<batchVars, fatt, fres>>
    /\ UNCHANGED <<postVars, ftranslate, fcall>>

\* the Get of goroutine i unlocks and returns: a hit is returned to the
\* goroutine, a miss goes on to postJSON and its first request
GetReturn(i) ==
    /\ fpc[i] = "get"
    /\ Unlock(i)
    /\ IF gret[i].found
       THEN /\ FetchReturn(i, [ok |-> TRUE, data |-> gret[i].value, err |-> NoError])
            /\ UNCHANGED <<fatt, fres>>
       ELSE /\ fpc' = [fpc EXCEPT ![i] = "do"]
            /\ UNCHANGED <<batchVars, fatt, fres>>
    /\ UNCHANGED <<postVars, ftranslate, fcall>>

\* httpClient.Do and io.ReadAll of goroutine i return r: a failure is retried
\* after a wait or returned, a document is decoded and cache.Set is called,
\* which returns at once if the cache has no room at all
FetchDo(i, r) ==
    /\ fpc[i] = "do"
    /\ IF IsFailure(r)
       THEN /\ fres' = [fres EXCEPT ![i] = Failed(FailureErr(r))]
            /\ IF FailureRetry(fatt[i], r)
               THEN /\ fpc' = [fpc EXCEPT ![i] = "wait"]
                    /\ UNCHANGED batchVars
               ELSE FetchReturn(i, Failed(FailureErr(r)))
            /\ UNCHANGED gpc
       ELSE IF ~Decode(r.body).ok
       THEN /\ fres' = [fres EXCEPT ![i] = Decode(r.body)]
            /\ FetchReturn(i, Decode(r.body))
            /\ UNCHANGED gpc
       ELSE /\ fres' = [fres EXCEPT ![i] = Decode(r.body)]
            /\ IF maxEntries <= 0
               THEN /\ FetchReturn(i, Decode(r.body))
                    /\ UNCHANGED gpc
               ELSE /\ fpc' = [fpc EXCEPT ![i] = "set"]
                    /\ gpc' = [gpc EXCEPT ![i] = "lock"]
                    /\ UNCHANGED batchVars
    /\ UNCHANGED <<postVars, cacheVars, mu, gop, gentry, gret, serial, ftranslate,
                   fcall, fatt>>

\* the timer of the waitRetry of goroutine i fires: the loop goes on
FetchWait(i) ==
    /\ fpc[i] = "wait"
    /\ fatt' = [fatt EXCEPT ![i] = fatt[i] + 1]
    /\ IF LoopCondition(fatt[i] + 1)
       THEN /\ fpc' = [fpc EXCEPT ![i] = "do"]
            /\ UNCHANGED batchVars
       ELSE FetchReturn(i, fres[i])
    /\ UNCHANGED <<postVars, cacheVars, concVars, ftranslate, fcall, fres>>

\* ctx.Done() wakes the waitRetry of goroutine i: postJSON returns ctx.Err()
FetchWaitCancelled(i) ==
    /\ fpc[i] = "wait"
    /\ ctx # "live"
    /\ FetchReturn(i, Failed(CtxErr(ctx)))
    /\ UNCHANGED <<postVars, cacheVars, concVars, ftranslate, fcall, fatt, fres>>

\* the caller cancels, or its deadline passes, while the handler is running
FetchCancel(c) ==
    /\ ctx = "live"
    /\ bpc \in {"spawn", "wait"}
    /\ ctx' = c
    /\ UNCHANGED <<maxRetries, ppc, attempt, lastErr, wake, ret, hist, waited,
                   waitCancelled>>
    /\ UNCHANGED <<batchVars, cacheVars, concVars, fetchVars>>

\* the Set of goroutine i unlocks and returns, and the method returns data
SetReturn(i) ==
    /\ fpc[i] = "set"
    /\ Unlock(i)
    /\ FetchReturn(i, fres[i])
    /\ UNCHANGED <<postVars, ftranslate, fcall, fatt, fres>>

\* the client has returned to the handler
ClientReturned ==
    /\ tpc = "client"
    /\ IF tret.call.fn = "batch" THEN bpc = "returned"
       ELSE IF LookupKind(tret.call.fn) # "none"
       THEN lpc = "idle" /\ lret.status # "none"
       ELSE ppc = "done"

\* result, err as the handler returns them
HandlerResult ==
    IF tret.call.fn = "batch" THEN [ok |-> TRUE, data |-> bret, err |-> NoError]
    ELSE IF LookupKind(tret.call.fn) # "none"
    THEN [ok |-> lret.status = "ok", data |-> lret.data, err |-> lret.err]
    ELSE ret

\* mutant of ExecuteReturn: the result is serialised whatever err is
ExecuteReturnDropsError ==
    /\ ClientReturned
    /\ tret' = [status |-> IF HandlerResult.ok THEN "ok" ELSE "error",
                err |-> HandlerResult.err, call |-> tret.call]
    /\ tout' = IF Marshal(HandlerResult.data).err # "nil"
               THEN ErrorResult(SerializeFailed(Marshal(HandlerResult.data).err))
               ELSE NewToolResult(Marshal(HandlerResult.data).payload)
    /\ tpc' = "returned"
    /\ UNCHANGED <<tname, targs, tfield, postVars, batchVars, cacheVars, lookupVars>>

\* knowsTool.Execute once the handler has returned from the client
ExecuteReturn ==
    /\ ClientReturned
    /\ tret' = [status |-> IF HandlerResult.ok THEN "ok" ELSE "error",
                err |-> HandlerResult.err, call |-> tret.call]
    /\ tout' = IF ~HandlerResult.ok THEN ErrorResult(HandlerResult.err)
               ELSE IF Marshal(HandlerResult.data).err # "nil"
               THEN ErrorResult(SerializeFailed(Marshal(HandlerResult.data).err))
               ELSE NewToolResult(Marshal(HandlerResult.data).payload)
    /\ tpc' = "returned"
    /\ UNCHANGED <<tname, targs, tfield, postVars, batchVars, cacheVars, lookupVars>>

\* the context of the call ends while the client is in postJSON
ExecCancel(c) ==
    /\ tpc = "client"
    /\ ppc \in {"do", "wait"}
    /\ Cancel(c)

(***************************************************************************)
(* The specifications.  Each starts the part it moves and holds the others *)
(* at the values below.                                                    *)
(***************************************************************************)
PostIdle ==
    /\ maxRetries = 0
    /\ ctx = "live"
    /\ ppc = "idle"
    /\ attempt = 0
    /\ lastErr = NoError
    /\ wake = "none"
    /\ ret = NotReturned
    /\ hist = <<>>
    /\ waited = {}
    /\ waitCancelled = 0

BatchIdle ==
    /\ tool = "none"
    /\ batchConcurrency = 1
    /\ requests = <<>>
    /\ bpc = "idle"
    /\ spawned = 0
    /\ wpc = <<>>
    /\ sem = 0
    /\ ch = <<>>
    /\ chClosed = FALSE
    /\ wg = 0
    /\ results = <<>>
    /\ called = <<>>
    /\ sendOrder = <<>>
    /\ bret = <<>>

BackoffIdle ==
    /\ retryBackoff = NoDelay
    /\ wAttempt = 0
    /\ delay = NoDelay
    /\ prevDelay = NoDelay

CacheIdle ==
    /\ entries = NoEntries
    /\ order = <<>>
    /\ ttl = 1
    /\ maxEntries = 0
    /\ now = 0
    /\ lastSet = NoEntries
    /\ got = NoGet
    /\ did = NoSet

ConcIdle ==
    /\ mu = 0
    /\ gpc = <<>>
    /\ gop = <<>>
    /\ gentry = <<>>
    /\ gret = <<>>
    /\ serial = NoSerial

LookupIdle ==
    /\ lpc = "idle"
    /\ lreq = NoRequest
    /\ lret = NoLookup

ToolIdle ==
    /\ tname = "none"
    /\ targs = NoArgs
    /\ tfield = NoField
    /\ tpc = "idle"
    /\ tret = NoReturn
    /\ tout = NoToolResult

FetchIdle ==
    /\ ftranslate = "nil"
    /\ fpc = <<>>
    /\ fcall = <<>>
    /\ fatt = <<>>
    /\ fres = <<>>

NewIdle ==
    /\ opts = NoOptions
    /\ factory = NotBuilt

InitPost ==
    /\ BatchIdle
    /\ BackoffIdle
    /\ CacheIdle
    /\ ConcIdle
    /\ LookupIdle
    /\ ToolIdle
    /\ NewIdle
    /\ FetchIdle
    /\ maxRetries \in 0..MaxRetriesBound
    /\ ctx = "live"
    /\ ppc = "idle"
    /\ attempt = 0
    /\ lastErr = NoError
    /\ wake = "none"
    /\ ret = NotReturned
    /\ hist = <<>>
    /\ waited = {}
    /\ waitCancelled = 0

NextPost ==
    \/ PostStart /\ UNCHANGED PostFrame
    \/ \E r \in Responses(ctx) : DoReturn(r) /\ UNCHANGED PostFrame
    \/ TimerFires /\ UNCHANGED PostFrame
    \/ \E c \in CtxErrors : Cancel(c) /\ UNCHANGED PostFrame
    \/ waitRetry /\ UNCHANGED PostFrame

SpecPost == InitPost /\ [][NextPost]_vars

\* httpClient.Do returns (the client has a Timeout), the timer of waitRetry
\* fires, and a call that can take a step takes one
SpecPostFair == SpecPost /\ WF_vars(NextPost)

InitBackoff ==
    /\ PostIdle
    /\ BatchIdle
    /\ CacheIdle
    /\ ConcIdle
    /\ LookupIdle
    /\ ToolIdle
    /\ NewIdle
    /\ FetchIdle
    /\ retryBackoff \in BaseDelays
    /\ wAttempt = 0
    /\ delay = NoDelay
    /\ prevDelay = NoDelay

NextBackoff == WaitDelay /\ UNCHANGED BackoffFrame

SpecBackoff == InitBackoff /\ [][NextBackoff]_vars

InitBatch ==
    /\ PostIdle
    /\ BackoffIdle
    /\ CacheIdle
    /\ ConcIdle
    /\ LookupIdle
    /\ ToolIdle
    /\ NewIdle
    /\ FetchIdle
    /\ tool = "none"
    /\ batchConcurrency \in 1..MaxConcurrency
    /\ requests = <<>>
    /\ bpc = "idle"
    /\ spawned = 0
    /\ wpc = <<>>
    /\ sem = 0
    /\ ch = <<>>
    /\ chClosed = FALSE
    /\ wg = 0
    /\ results = <<>>
    /\ called = <<>>
    /\ sendOrder = <<>>
    /\ bret = <<>>

NextBatch ==
    \/ \E tl \in BatchTools, n \in 1..MaxBatch : BatchStart(tl, n) /\ UNCHANGED BatchFrame
    \/ Spawn /\ UNCHANGED BatchFrame
    \/ \E i \in DOMAIN wpc : Acquire(i) /\ UNCHANGED BatchFrame
    \/ \E i \in DOMAIN wpc : \E out \in CallOutcomes(requests[i]) :
          CallReturn(i, out) /\ UNCHANGED BatchFrame
    \/ \E i \in DOMAIN wpc : Send(i) /\ UNCHANGED BatchFrame
    \/ \E i \in DOMAIN wpc : Release(i) /\ UNCHANGED BatchFrame
    \/ WgWait /\ UNCHANGED BatchFrame
    \/ CloseCh /\ UNCHANGED BatchFrame
    \/ Drain /\ UNCHANGED BatchFrame

SpecBatch == InitBatch /\ [][NextBatch]_vars

InitCache ==
    /\ PostIdle
    /\ BatchIdle
    /\ BackoffIdle
    /\ ConcIdle
    /\ LookupIdle
    /\ ToolIdle
    /\ NewIdle
    /\ FetchIdle
    /\ entries = NoEntries
    /\ order = <<>>
    /\ ttl \in 1..MaxTTL
    /\ maxEntries \in (-1)..MaxEntries
    /\ now = 0
    /\ lastSet = NoEntries
    /\ got = NoGet
    /\ did = NoSet

NextCache ==
    \/ \E k \in CacheKeys : Get(k) /\ UNCHANGED CacheFrame
    \/ \E k \in CacheKeys, v \in CacheValues :
          Set(k, v) /\ UNCHANGED CacheFrame
    \/ Tick /\ UNCHANGED CacheFrame

SpecCache == InitCache /\ [][NextCache]_vars

InitConc ==
    /\ PostIdle
    /\ BatchIdle
    /\ BackoffIdle
    /\ entries = NoEntries
    /\ order = <<>>
    /\ ttl = 1
    /\ maxEntries \in 0..MaxEntries
    /\ now = 0
    /\ lastSet = NoEntries
    /\ got = NoGet
    /\ did = NoSet
    /\ mu = 0
    /\ gpc = [g \in Goroutines |-> "idle"]
    /\ gop = [g \in Goroutines |-> NoOp]
    /\ gentry = [g \in Goroutines |-> NoEntry]
    /\ gret = [g \in Goroutines |-> NoResult]
    /\ serial = NoSerial
    /\ LookupIdle
    /\ ToolIdle
    /\ NewIdle
    /\ FetchIdle

NextConc ==
    \/ \E g \in Goroutines : Call(g) /\ UNCHANGED ConcFrame
    \/ \E g \in Goroutines : \E o \in CacheOps(g) : Lock(g, o) /\ UNCHANGED ConcFrame
    \/ \E g \in Goroutines : GetRead(g) /\ UNCHANGED ConcFrame
    \/ \E g \in Goroutines : GetExpiry(g) /\ UNCHANGED ConcFrame
    \/ \E g \in Goroutines : GetDelete(g) /\ UNCHANGED ConcFrame
    \/ \E g \in Goroutines : GetCut(g) /\ UNCHANGED ConcFrame
    \/ \E g \in Goroutines : SetExists(g) /\ UNCHANGED ConcFrame
    \/ \E g \in Goroutines : SetRoom(g) /\ UNCHANGED ConcFrame
    \/ \E g \in Goroutines : SetAppend(g) /\ UNCHANGED ConcFrame
    \/ \E g \in Goroutines : SetWrite(g) /\ UNCHANGED ConcFrame
    \/ \E g \in Goroutines : Unlock(g) /\ UNCHANGED ConcFrame
    \/ Tick /\ UNCHANGED <<ConcFrame, concVars>>

SpecConc == InitConc /\ [][NextConc]_vars

InitLookup ==
    /\ BatchIdle
    /\ BackoffIdle
    /\ ConcIdle
    /\ ToolIdle
    /\ NewIdle
    /\ FetchIdle
    /\ maxRetries = 1
    /\ ctx = "live"
    /\ ppc = "idle"
    /\ attempt = 0
    /\ lastErr = NoError
    /\ wake = "none"
    /\ ret = NotReturned
    /\ hist = <<>>
    /\ waited = {}
    /\ waitCancelled = 0
    /\ entries = NoEntries
    /\ order = <<>>
    /\ ttl = MaxTTL
    /\ maxEntries \in 1..MaxEntries
    /\ now = 0
    /\ lastSet = NoEntries
    /\ got = NoGet
    /\ did = NoSet
    /\ lpc = "idle"
    /\ lreq = NoRequest
    /\ lret = NoLookup

NextLookup ==
    \/ \E q \in LookupRequests : fetchEvidenceDetail(q) /\ UNCHANGED LookupFrame
    \/ \E r \in LookupResponses(ctx, lreq) :
          DoReturn(r) /\ UNCHANGED <<LookupFrame, cacheVars, lookupVars>>
    \/ TimerFires /\ UNCHANGED <<LookupFrame, cacheVars, lookupVars>>
    \/ \E c \in CtxErrors : LookupCancel(c) /\ UNCHANGED LookupFrame
    \/ waitRetry /\ UNCHANGED <<LookupFrame, cacheVars, lookupVars>>
    \/ getDetailReturn /\ UNCHANGED LookupFrame
    \/ LookupTick /\ UNCHANGED LookupFrame

SpecLookup == InitLookup /\ [][NextLookup]_vars

\* what earlier lookups can have left in the cache when a tool is called:
\* nothing, an entry that is live, or an entry that has expired
StoredBefore ==
    LET key == "PAPER:ev-1:false"
        e == [value |-> Detail([kind |-> "PAPER", id |-> "ev-1", translate |-> "nil"]),
              expiresAt |-> MaxTTL]
        s == [value |-> e.value, at |-> 0, since |-> 0]
    IN  {[entries |-> NoEntries, order |-> <<>>, lastSet |-> NoEntries, now |-> 0],
         [entries |-> With(NoEntries, key, e), order |-> <<key>>,
          lastSet |-> With(NoEntries, key, s), now |-> 1],
         [entries |-> With(NoEntries, key, e), order |-> <<key>>,
          lastSet |-> With(NoEntries, key, s), now |-> MaxTime]}

InitTools ==
    /\ BatchIdle
    /\ BackoffIdle
    /\ ConcIdle
    /\ LookupIdle
    /\ maxRetries = 1
    /\ ctx = "live"
    /\ ppc = "idle"
    /\ attempt = 0
    /\ lastErr = NoError
    /\ wake = "none"
    /\ ret = NotReturned
    /\ hist = <<>>
    /\ waited = {}
    /\ waitCancelled = 0
    /\ ttl = MaxTTL
    /\ maxEntries = MaxEntries
    /\ \E c \in StoredBefore :
          /\ entries = c.entries
          /\ order = c.order
          /\ lastSet = c.lastSet
          /\ now = c.now
    /\ got = NoGet
    /\ did = NoSet
    /\ \E c \in UNION {ToolCalls(n) : n \in ToolNames} :
          /\ tname = c.name
          /\ targs = c.args
          /\ tfield = c.field
    /\ tpc = "called"
    /\ tret = NoReturn
    /\ tout = NoToolResult
    /\ FetchIdle
    /\ opts \in {o \in Options : /\ o.APIKey = " key "
                                 /\ o.APIBaseURL = "https://knows.example/"
                                 /\ o.RequestTimeout = 0 /\ o.MaxRetries = 0
                                 /\ o.RetryBackoff = 0 /\ o.BatchConcurrency = 0
                                 /\ o.CacheTTL = 0 /\ o.CacheMaxEntries = 0
                                 /\ NewKnowsTools(o).err = "nil"}
    /\ factory = NewKnowsTools(opts)

NextTools == Execute /\ UNCHANGED ToolFrame

SpecTools == InitTools /\ [][NextTools]_vars

\* the calls of Execute that are followed to their return: of each tool, its
\* well-formed bag and that bag with one field left out or given a number
ExecCalls ==
    {c \in UNION {ToolCalls(n) : n \in ToolNames} :
        \/ c.field = NoField
        \/ /\ c.field.list = ""
           /\ c.args[c.field.name] \in {Absent, Num(7)}}

InitExec ==
    /\ BatchIdle
    /\ BackoffIdle
    /\ ConcIdle
    /\ LookupIdle
    /\ maxRetries = 1
    /\ ctx = "live"
    /\ ppc = "idle"
    /\ attempt = 0
    /\ lastErr = NoError
    /\ wake = "none"
    /\ ret = NotReturned
    /\ hist = <<>>
    /\ waited = {}
    /\ waitCancelled = 0
    /\ ttl = MaxTTL
    /\ maxEntries = MaxEntries
    /\ \E c \in StoredBefore :
          /\ entries = c.entries
          /\ order = c.order
          /\ lastSet = c.lastSet
          /\ now = c.now
    /\ got = NoGet
    /\ did = NoSet
    /\ \E c \in ExecCalls :
          /\ tname = c.name
          /\ targs = c.args
          /\ tfield = c.field
    /\ tpc = "called"
    /\ tret = NoReturn
    /\ tout = NoToolResult
    /\ FetchIdle
    /\ opts = [NoOptions EXCEPT !.APIKey = " key ",
                                !.APIBaseURL = "https://knows.example/"]
    /\ factory = NewKnowsTools(opts)

NextExec ==
    \/ Execute /\ UNCHANGED ToolFrame
    \/ \E r \in LookupResponses(ctx, lreq) :
          /\ tpc = "client"
          /\ DoReturn(r)
          /\ UNCHANGED <<ToolFrame, batchVars, cacheVars, lookupVars, toolVars>>
    \/ TimerFires /\ UNCHANGED <<ToolFrame, batchVars, cacheVars, lookupVars, toolVars>>
    \/ \E c \in CtxErrors :
          ExecCancel(c) /\ UNCHANGED <<ToolFrame, batchVars, cacheVars, lookupVars, toolVars>>
    \/ waitRetry /\ UNCHANGED <<ToolFrame, batchVars, cacheVars, lookupVars, toolVars>>
    \/ getDetailReturn /\ UNCHANGED <<ToolFrame, batchVars, toolVars>>
    \/ Spawn /\ UNCHANGED <<ToolFrame, postVars, cacheVars, lookupVars, toolVars>>
    \/ \E i \in DOMAIN wpc :
          Acquire(i) /\ UNCHANGED <<ToolFrame, postVars, cacheVars, lookupVars, toolVars>>
    \/ \E i \in DOMAIN wpc : \E out \in CallOutcomes(requests[i]) :
          CallReturn(i, out)
              /\ UNCHANGED <<ToolFrame, postVars, cacheVars, lookupVars, toolVars>>
    \/ \E i \in DOMAIN wpc :
          Send(i) /\ UNCHANGED <<ToolFrame, postVars, cacheVars, lookupVars, toolVars>>
    \/ \E i \in DOMAIN wpc :
          Release(i) /\ UNCHANGED <<ToolFrame, postVars, cacheVars, lookupVars, toolVars>>
    \/ WgWait /\ UNCHANGED <<ToolFrame, postVars, cacheVars, lookupVars, toolVars>>
    \/ CloseCh /\ UNCHANGED <<ToolFrame, postVars, cacheVars, lookupVars, toolVars>>
    \/ Drain /\ UNCHANGED <<ToolFrame, postVars, cacheVars, lookupVars, toolVars>>
    \/ ExecuteReturn /\ UNCHANGED ToolFrame

SpecExec == InitExec /\ [][NextExec]_vars

\* a sub-request as parseBatchEvidenceRequests returns it
Evidence(id, type) == [EvidenceID |-> id, Type |-> type]

\* the lists of sub-requests of a batch, one goroutine for each sub-request:
\* each of the four types alone, the same sub-request twice, and pairs of
\* different types
FetchBatches ==
    {<<Evidence("ev-1", "PAPER")>>,
     <<Evidence("ev-1", "PAPER_CN")>>,
     <<Evidence("ev-1", "GUIDE")>>,
     <<Evidence("ev-2", "MEETING")>>,
     <<Evidence("ev-1", "PAPER"), Evidence("ev-1", "PAPER")>>,
     <<Evidence("ev-1", "PAPER"), Evidence("ev-1", "GUIDE")>>,
     <<Evidence("ev-1", "PAPER_CN"), Evidence("ev-2", "MEETING")>>,
     <<Evidence("ev-2", "MEETING"), Evidence("ev-1", "PAPER")>>,
     <<Evidence("ev-1", "GUIDE"), Evidence("ev-1", "PAPER_CN")>>}

InitFetch ==
    /\ BackoffIdle
    /\ LookupIdle
    /\ ToolIdle
    /\ NewIdle
    /\ maxRetries = 1
    /\ ctx = "live"
    /\ ppc = "idle"
    /\ attempt = 0
    /\ lastErr = NoError
    /\ wake = "none"
    /\ ret = NotReturned
    /\ hist = <<>>
    /\ waited = {}
    /\ waitCancelled = 0
    /\ ttl = MaxTTL
    /\ maxEntries = 1
    /\ \E c \in StoredBefore :
          /\ entries = c.entries
          /\ order = c.order
          /\ lastSet = c.lastSet
          /\ now = c.now
    /\ got = NoGet
    /\ did = NoSet
    /\ tool = "knows_batch_get_evidence_details"
    /\ batchConcurrency \in 1..2
    /\ requests \in FetchBatches
    /\ bpc = "spawn"
    /\ spawned = 0
    /\ wpc = [i \in DOMAIN requests |-> "none"]
    /\ sem = 0
    /\ ch = <<>>
    /\ chClosed = FALSE
    /\ wg = 0
    /\ results = [i \in DOMAIN requests |-> NilItem]
    /\ called = [i \in DOMAIN requests |-> NotReturned]
    /\ sendOrder = <<>>
    /\ bret = <<>>
    /\ mu = 0
    /\ gpc = [i \in DOMAIN requests |-> "idle"]
    /\ gop = [i \in DOMAIN requests |-> NoOp]
    /\ gentry = [i \in DOMAIN requests |-> NoEntry]
    /\ gret = [i \in DOMAIN requests |-> NoResult]
    /\ serial = NoSerial
    /\ ftranslate \in TranslateFlags
    /\ fpc = [i \in DOMAIN requests |-> "none"]
    /\ fcall = [i \in DOMAIN requests |-> NoClientCall]
    /\ fatt = [i \in DOMAIN requests |-> 0]
    /\ fres = [i \in DOMAIN requests |-> NotReturned]

\* what a step of the Get or the Set of a goroutine leaves alone
InCache == <<FetchFrame, postVars, batchVars, fetchVars>>

NextFetch ==
    \/ Spawn /\ UNCHANGED <<FetchFrame, postVars, cacheVars, concVars, fetchVars>>
    \/ \E i \in DOMAIN wpc :
          Acquire(i) /\ UNCHANGED <<FetchFrame, postVars, cacheVars, concVars, fetchVars>>
    \/ \E i \in DOMAIN wpc : Dispatch(i) /\ UNCHANGED FetchFrame
    \/ \E i \in DOMAIN wpc : CacheLock(i) /\ UNCHANGED InCache
    \/ \E i \in DOMAIN wpc : GetRead(i) /\ UNCHANGED InCache
    \/ \E i \in DOMAIN wpc : GetExpiry(i) /\ UNCHANGED InCache
    \/ \E i \in DOMAIN wpc : GetDelete(i) /\ UNCHANGED InCache
    \/ \E i \in DOMAIN wpc : GetCut(i) /\ UNCHANGED InCache
    \/ \E i \in DOMAIN wpc : GetReturn(i) /\ UNCHANGED FetchFrame
    \/ \E i \in DOMAIN wpc : \E r \in LookupResponses(ctx, FetchRequest(i)) :
          FetchDo(i, r) /\ UNCHANGED FetchFrame
    \/ \E i \in DOMAIN wpc : FetchWait(i) /\ UNCHANGED FetchFrame
    \/ \E i \in DOMAIN wpc : FetchWaitCancelled(i) /\ UNCHANGED FetchFrame
    \/ \E c \in CtxErrors : FetchCancel(c) /\ UNCHANGED FetchFrame
    \/ \E i \in DOMAIN wpc : SetExists(i) /\ UNCHANGED InCache
    \/ \E i \in DOMAIN wpc : SetRoom(i) /\ UNCHANGED InCache
    \/ \E i \in DOMAIN wpc : SetAppend(i) /\ UNCHANGED InCache
    \/ \E i \in DOMAIN wpc : SetWrite(i) /\ UNCHANGED InCache
    \/ \E i \in DOMAIN wpc : SetReturn(i) /\ UNCHANGED FetchFrame
    \/ \E i \in DOMAIN wpc :
          Send(i) /\ UNCHANGED <<FetchFrame, postVars, cacheVars, concVars, fetchVars>>
    \/ \E i \in DOMAIN wpc :
          Release(i) /\ UNCHANGED <<FetchFrame, postVars, cacheVars, concVars, fetchVars>>
    \/ WgWait /\ UNCHANGED <<FetchFrame, postVars, cacheVars, concVars, fetchVars>>
    \/ CloseCh /\ UNCHANGED <<FetchFrame, postVars, cacheVars, concVars, fetchVars>>
    \/ Drain /\ UNCHANGED <<FetchFrame, postVars, cacheVars, concVars, fetchVars>>

SpecFetch == InitFetch /\ [][NextFetch]_vars

\* the lookups that take the translation flag, with each value of the flag
FlagRequests ==
    [kind : {"PAPER", "GUIDE", "MEETING"}, id : {"ev-1"}, translate : TranslateFlags]

InitFlags ==
    /\ BatchIdle
    /\ BackoffIdle
    /\ ConcIdle
    /\ ToolIdle
    /\ NewIdle
    /\ FetchIdle
    /\ maxRetries = 1
    /\ ctx = "live"
    /\ ppc = "idle"
    /\ attempt = 0
    /\ lastErr = NoError
    /\ wake = "none"
    /\ ret = NotReturned
    /\ hist = <<>>
    /\ waited = {}
    /\ waitCancelled = 0
    /\ entries = NoEntries
    /\ order = <<>>
    /\ ttl = 1
    /\ maxEntries = 2
    /\ now = 0
    /\ lastSet = NoEntries
    /\ got = NoGet
    /\ did = NoSet
    /\ lpc = "idle"
    /\ lreq = NoRequest
    /\ lret = NoLookup

NextFlags ==
    \/ \E q \in FlagRequests : fetchEvidenceDetail(q) /\ UNCHANGED LookupFrame
    \/ \E r \in LookupResponses(ctx, lreq) :
          DoReturn(r) /\ UNCHANGED <<LookupFrame, cacheVars, lookupVars>>
    \/ TimerFires /\ UNCHANGED <<LookupFrame, cacheVars, lookupVars>>
    \/ waitRetry /\ UNCHANGED <<LookupFrame, cacheVars, lookupVars>>
    \/ getDetailReturn /\ UNCHANGED LookupFrame
    \/ LookupTick /\ UNCHANGED LookupFrame

SpecFlags == InitFlags /\ [][NextFlags]_vars

\* a goroutine that can run is run, the underlying call of a sub-request
\* returns, and a handler that can take a step takes one
SpecBatchFair == SpecBatch /\ WF_vars(NextBatch)

\* the same for the goroutines in their lookups: httpClient.Do returns (the
\* client has a Timeout) and the timer of waitRetry fires
SpecFetchFair == SpecFetch /\ WF_vars(NextFetch)

InitNew ==
    /\ PostIdle
    /\ BatchIdle
    /\ BackoffIdle
    /\ CacheIdle
    /\ ConcIdle
    /\ LookupIdle
    /\ ToolIdle
    /\ FetchIdle
    /\ opts \in Options
    /\ factory = NotBuilt

NextNew == Construct /\ UNCHANGED NewFrame

SpecNew == InitNew /\ [][NextNew]_vars

(***************************************************************************)
(* Claims about the batch handlers, checked under SpecBatch.               *)
(***************************************************************************)
\* element e names sub-request req
Identifies(e, req) ==
    IF tool = "knows_batch_answer"
    THEN e.question_id = req.QuestionID
    ELSE e.evidence_id = req.EvidenceID /\ e.type = req.Type

\* element e reports the outcome out of an underlying call
Reports(e, out) ==
    IF out.ok
    THEN e.status = "success" /\ "data" \in DOMAIN e /\ e.data = out.data
    ELSE e.status = "error" /\ "error" \in DOMAIN e /\ e.error = out.err

\* C1: the list a batch call returns has one element per sub-request, and
\* element i names sub-request i and reports what the underlying call of
\* sub-request i returned, in whatever order the goroutines completed.
C1_BatchOrder ==
    bpc = "returned" =>
        /\ Len(bret) = Len(requests)
        /\ \A i \in 1..Len(requests) :
              /\ bret[i] # NilItem
              /\ called[i] # NotReturned
              /\ Identifies(bret[i], requests[i])
              /\ Reports(bret[i], called[i])

C1_Witness ==
    /\ bpc = "returned" /\ Len(bret) = 3
    /\ sendOrder = <<3, 1, 2>>
    /\ ~called[3].ok /\ called[1].ok /\ called[2].ok
    /\ bret[3].status = "error" /\ bret[1].status = "success"

\* the goroutines that hold a slot of the admission gate: their underlying
\* call is in progress or has returned and the slot is not yet given back
Holders == {i \in DOMAIN wpc : wpc[i] \in {"call", "send", "release"}}

InCall == {i \in DOMAIN wpc : wpc[i] = "call"}

\* C2: at no time do more than batchConcurrency goroutines hold a slot, so no
\* more than batchConcurrency underlying calls are in progress.
C2_BoundedConcurrency ==
    /\ Cardinality(Holders) <= batchConcurrency
    /\ Cardinality(InCall) <= batchConcurrency

C2_Witness ==
    /\ Len(requests) = 4 /\ batchConcurrency = 2
    /\ Cardinality(InCall) = 2
    /\ Cardinality({i \in DOMAIN wpc : wpc[i] = "acquire"}) = 2

\* C3: when the underlying call of exactly one sub-request failed, the
\* returned list reports success with the payload under data for every other
\* sub-request, and for the failed one status error with the error and no
\* data key.
FailedCalls == {i \in DOMAIN called : called[i] # NotReturned /\ ~called[i].ok}

C3_Isolation ==
    (bpc = "returned" /\ Cardinality(FailedCalls) = 1) =>
        \A i \in 1..Len(requests) :
            IF i \in FailedCalls
            THEN /\ bret[i].status = "error"
                 /\ "error" \in DOMAIN bret[i] /\ bret[i].error = called[i].err
                 /\ "data" \notin DOMAIN bret[i]
            ELSE /\ bret[i].status = "success"
                 /\ "data" \in DOMAIN bret[i]
                 /\ bret[i].data = Payload(requests[i])
                 /\ "error" \notin DOMAIN bret[i]

C3_Witness ==
    /\ bpc = "returned" /\ Len(requests) = 3
    /\ FailedCalls = {2}
    /\ bret[1].status = "success" /\ bret[2].status = "error"
    /\ bret[3].status = "success"

\* C4: when the handler returns, every goroutine it started has run to its
\* end, none waits for a slot or is in its call, the channel is drained and
\* every slot of the returned list is filled.
C4_WaitsForAll ==
    bpc = "returned" =>
        /\ spawned = Len(requests)
        /\ \A i \in 1..Len(requests) : wpc[i] = "exit" /\ bret[i] # NilItem
        /\ wg = 0 /\ sem = 0 /\ ch = <<>>

C4_Witness ==
    /\ bpc = "returned" /\ Len(requests) = 4 /\ batchConcurrency = 2
    /\ \A i \in 1..4 : wpc[i] = "exit" /\ bret[i] # NilItem

\* the variables of the batch handlers while no batch runs
(***************************************************************************)
(* Claims about postJSON, checked under SpecPost.                          *)
(***************************************************************************)
Is503(r) == r.err = "nil" /\ r.readErr = "nil" /\ r.status = 503

All503 == \A k \in 1..Len(hist) : Is503(hist[k])

\* C5: when every attempt is answered 503 and the context stays live, the call
\* ends after exactly maxRetries + 1 attempts, with the error of a 503, and
\* never makes more attempts than that on the way.
C5_RetryBound ==
    (ctx = "live" /\ All503) =>
        /\ Len(hist) <= maxRetries + 1
        /\ ppc = "done" => /\ Len(hist) = maxRetries + 1
                           /\ ret = Failed(StatusFailed(503))

C5_Witness ==
    /\ ppc = "done" /\ ctx = "live" /\ All503
    /\ maxRetries = 2 /\ Len(hist) = 3 /\ ~ret.ok

\* the failure classes of the claim: a transport or read error that is not a
\* context error, or a 5xx status, with retries left after attempt k
CtxFailure(r) ==
    \/ r.err \in CtxErrors
    \/ r.err = "nil" /\ r.readErr \in CtxErrors

Retryable(k, r) ==
    /\ k - 1 < maxRetries
    /\ IF r.err # "nil" THEN r.err \notin CtxErrors
       ELSE IF r.readErr # "nil" THEN r.readErr \notin CtxErrors
       ELSE r.status >= 500 /\ r.status <= 599

StatusFailure(r) == r.err = "nil" /\ r.readErr = "nil" /\ IsFailure(r)

\* C6 as stated: once the call has returned, a failed attempt was followed by
\* another attempt if and only if retries were left and the failure was
\* retryable.
C6_Original ==
    ppc = "done" =>
        \A k \in 1..Len(hist) :
            IsFailure(hist[k]) => ((k < Len(hist)) <=> Retryable(k, hist[k]))

\* C6 amended: a failed attempt is followed by a backoff wait if and only if
\* retries are left and the failure is retryable; another attempt starts only
\* after such a wait, and a wait not followed by an attempt was ended by the
\* context; any other failure ends the call at that attempt with its error,
\* which quotes the status when the failure is a status.
C6_RetryIff ==
    /\ \A k \in 1..Len(hist) :
          /\ IsFailure(hist[k]) => ((k \in waited) <=> Retryable(k, hist[k]))
          /\ k < Len(hist) => (IsFailure(hist[k]) /\ k \in waited)
          /\ (IsFailure(hist[k]) /\ ~Retryable(k, hist[k])) =>
                /\ k = Len(hist) /\ ppc = "done"
                /\ ret = Failed(FailureErr(hist[k]))
                /\ StatusFailure(hist[k]) => ret.err.status = hist[k].status
          /\ (~IsFailure(hist[k]) /\ hist[k].body.kind = "invalid") =>
                /\ k = Len(hist) /\ k \notin waited
                /\ ppc = "done" /\ ret = Failed(DecodeFailed)
    /\ waited \subseteq 1..Len(hist)
    /\ (ppc = "done" /\ Len(hist) \in waited) =>
          (ctx # "live" /\ ret = Failed(CtxErr(ctx)))

C6_Witness ==
    /\ ppc = "done" /\ Len(hist) = 2 /\ maxRetries = 2
    /\ Is503(hist[1]) /\ 1 \in waited
    /\ hist[2].err = "nil" /\ hist[2].readErr = "nil" /\ hist[2].status = 404
    /\ 2 \notin waited /\ ret.err.status = 404

\* C7: an attempt that fails with Canceled or DeadlineExceeded is the last one:
\* the call has returned that failure, with no backoff wait after it, even
\* with retries left.
C7_CancelNotRetried ==
    \A k \in 1..Len(hist) :
        CtxFailure(hist[k]) =>
            /\ k = Len(hist) /\ k \notin waited
            /\ ppc = "done" /\ ~ret.ok
            /\ ret.err = FailureErr(hist[k]) /\ ret.err.cause \in CtxErrors

C7_Witness ==
    /\ ppc = "done" /\ Len(hist) = 1 /\ maxRetries = 2
    /\ hist[1].err = "Canceled" /\ ret.err.cause = "Canceled" /\ waited = {}

\* C8: once the context is done while the call is parked in a backoff wait
\* after attempt n, the wait is woken by the context, no attempt n + 1 is
\* made, and the call returns ctx.Err().
C8_WaitCancelled ==
    waitCancelled > 0 =>
        /\ Len(hist) = waitCancelled
        /\ ppc \in {"wait", "done"}
        /\ ppc = "wait" => wake = "ctx"
        /\ ppc = "done" => ret = Failed(CtxErr(ctx))

C8_Witness ==
    /\ waitCancelled = 1 /\ maxRetries = 2 /\ ppc = "done"
    /\ ret = Failed(CtxErr("Canceled"))

(***************************************************************************)
(* Claims about the delay of waitRetry, checked under SpecBackoff.         *)
(***************************************************************************)
\* min(retryBackoff * 2^att, 8 seconds), in exact arithmetic
ExactDelay(base, att) ==
    IF Less(EightSeconds, ShiftLeft(base, att))
    THEN Trim(EightSeconds)
    ELSE Trim(ShiftLeft(base, att))

\* C9: the delay waited after failed attempt number attempt is
\* min(retryBackoff * 2^attempt, 8 seconds); it is not above 8 seconds and
\* not below the delay waited after the attempt before, nor below the base
\* delay (the base delays of the model are at most 8 seconds).
C9_Backoff ==
    delay # NoDelay =>
        /\ ~Negative(delay)
        /\ Trim(delay) = ExactDelay(retryBackoff, wAttempt - 1)
        /\ ~Greater64(delay, EightSeconds)
        /\ ~Greater64(retryBackoff, delay)
        /\ prevDelay # NoDelay => ~Greater64(prevDelay, delay)

(***************************************************************************)
(* Claims about knowsDetailCache, checked under SpecCache.                 *)
(***************************************************************************)
\* C10: with a capacity above zero, a Get of a key that was Set, was not
\* removed from the cache since, and whose latest Set is less than the TTL
\* ago, finds the key and returns the value of that latest Set.
C10_GetAfterSet ==
    (maxEntries > 0 /\ got.key # "none" /\ got.wasSet /\ got.elapsed < ttl) =>
        (got.found /\ got.value = got.setValue)

C10_Witness ==
    /\ maxEntries = 2 /\ ttl = 2
    /\ got.key = "PAPER:ev-1:true" /\ got.wasSet /\ got.elapsed = 1
    /\ got.found /\ got.value = "v2"
    /\ Len(order) = 2

\* the keys of the sequence order
InOrder == {order[i] : i \in DOMAIN order}

\* C11: a Get finds a key only if the key was Set at most the TTL ago and not
\* removed since; a Get of a stored key whose latest Set is more than the TTL
\* ago finds nothing and removes the key, and only that key, from entries and
\* from order, so that one entry less counts toward the capacity.
C11_ExpiredGet ==
    [][got'.key # "none" =>
         LET k == got'.key
         IN  /\ got'.found => (got'.wasSet /\ got'.elapsed <= ttl)
             /\ (k \in DOMAIN entries /\ got'.elapsed > ttl) =>
                   /\ ~got'.found
                   /\ DOMAIN entries' = (DOMAIN entries) \ {k}
                   /\ order' = SelectSeq(order, LAMBDA x : x # k)
                   /\ Len(order') = Len(order) - 1
                   /\ \A x \in DOMAIN entries' : entries'[x] = entries[x]]_vars

C11_Witness ==
    /\ got.key = "PAPER:ev-1:false" /\ got.wasSet /\ got.elapsed > ttl
    /\ ~got.found
    /\ got.key \notin DOMAIN entries
    /\ order = <<"GUIDE:ev-1:false">>

\* C12: a cache with a capacity N above zero never stores more than N entries,
\* and order lists exactly the stored keys, each once.
C12_Capacity ==
    maxEntries > 0 =>
        /\ Cardinality(DOMAIN entries) <= maxEntries
        /\ InOrder = DOMAIN entries
        /\ Len(order) = Cardinality(DOMAIN entries)

C12_Witness ==
    /\ maxEntries = 2
    /\ Cardinality(DOMAIN entries) = 2
    /\ did.key # "none" /\ ~did.existed /\ did.full
    /\ Len(did.evicted) = 1

\* C13: a Set of a key that is not stored, into a cache that holds N entries
\* for a capacity N above zero, removes exactly one entry, the head of order,
\* which no stored key was inserted before; the other entries stay, and the new
\* key is stored at the end of order with the value and an expiry not before
\* the clock.
C13_EvictsOldest ==
    [][(did'.key # "none" /\ ~did'.existed /\ maxEntries > 0
          /\ Cardinality(DOMAIN entries) = maxEntries) =>
         /\ Len(did'.evicted) = 1
         /\ did'.evicted[1].key = Head(order)
         /\ \A k \in DOMAIN entries : did'.evicted[1].since <= lastSet[k].since
         /\ DOMAIN entries' = ((DOMAIN entries) \ {Head(order)}) \cup {did'.key}
         /\ \A k \in (DOMAIN entries) \ {Head(order)} : entries'[k] = entries[k]
         /\ order' = Append(Tail(order), did'.key)
         /\ entries'[did'.key].value = lastSet'[did'.key].value
         /\ ~(now' > entries'[did'.key].expiresAt)]_vars

\* the evicted key was updated after its insertion, later than the latest Set
\* of the key that stays
C13_Witness ==
    /\ maxEntries = 2
    /\ did.key = "GUIDE:ev-1:false" /\ ~did.existed /\ did.full
    /\ Len(did.evicted) = 1
    /\ did.evicted[1].at > did.evicted[1].since
    /\ lastSet[Head(order)].at < did.evicted[1].at
    /\ order[2] = did.key

\* C14: a Set of a stored key replaces the value and the expiry of the key and
\* leaves order, the other entries and the time of the key's insertion as they
\* are; it evicts nothing, whether the cache is full or not.
C14_UpdateKeepsOrder ==
    [][(did'.key # "none" /\ did'.existed) =>
         /\ order' = order
         /\ did'.evicted = <<>>
         /\ DOMAIN entries' = DOMAIN entries
         /\ \A k \in (DOMAIN entries) \ {did'.key} : entries'[k] = entries[k]
         /\ entries'[did'.key] = [value |-> lastSet'[did'.key].value,
                                  expiresAt |-> now + ttl]
         /\ lastSet'[did'.key].since = lastSet[did'.key].since]_vars

\* the cache is full and the key just updated is the next one to be evicted
C14_Witness ==
    /\ maxEntries = 2
    /\ did.key # "none" /\ did.existed /\ did.full
    /\ Len(order) = 2 /\ Head(order) = did.key
    /\ entries[did.key].value = "v2"
    /\ lastSet[did.key].at > lastSet[did.key].since
    /\ entries[did.key].expiresAt > entries[order[2]].expiresAt

C16_Serialised ==
    [][/\ \A g \in Goroutines : gpc'[g] \in Region => mu' = g
       /\ \A g \in Goroutines :
             (mu # 0 /\ g # mu) => (gpc'[g] = gpc[g] \/ (gpc[g] = "idle" /\ gpc'[g] = "lock"))
       /\ (entries' # entries \/ order' # order) =>
             (mu \in Goroutines /\ mu' = mu /\ gpc[mu] \in Region)
       /\ \A g \in Goroutines :
             (gpc[g] # "unlock" /\ gpc'[g] = "unlock" /\ gop[g].op = "Get") =>
                 gret'[g] = serial'.ret
       /\ mu' = 0 => [entries |-> entries', order |-> order'] = serial'.cache]_vars

\* goroutine 1 is in the middle of a Get that removes an expired key, which is
\* out of entries and still in order, while goroutine 2 waits for the mutex
C16_Witness ==
    /\ mu = 1
    /\ gpc[1] = "cut"
    /\ gpc[2] = "lock"
    /\ gop[1].key \notin DOMAIN entries
    /\ gop[1].key \in InOrder

(***************************************************************************)
(* Claims about the detail lookups, checked under SpecLookup.              *)
(***************************************************************************)
\* the keys of the lookups of a supported kind
LookupKeys == {CacheKey(q) : q \in {r \in LookupRequests : r.kind \in SupportedKinds}}

\* the step is the call of a lookup of a supported kind: it has asked the cache,
\* and got' is what the cache said
Looked == lpc = "idle" /\ (lpc' = "fetch" \/ (lret'.status = "ok" /\ lret'.cached))

\* C17: a lookup whose key no entry is stored for calls postJSON, once, and
\* when that call succeeds its data is returned and stored; a lookup whose key
\* was stored by an earlier lookup less than the TTL ago and not removed since
\* returns the stored data, which is the data that lookup returned, without
\* calling postJSON.
C17_SecondFromCache ==
    [][/\ (Looked /\ got'.key \notin DOMAIN entries) =>
             (lpc' = "fetch" /\ ppc' = "do" /\ hist' = <<>>)
       /\ (lpc = "fetch" /\ lpc' = "idle" /\ ret.ok) =>
             /\ lret'.status = "ok" /\ ~lret'.cached
             /\ lret'.data = ret.data
             /\ CacheKey(lreq) \in DOMAIN entries'
             /\ lastSet'[CacheKey(lreq)].value = ret.data
             /\ lastSet'[CacheKey(lreq)].at = now
       /\ (Looked /\ got'.wasSet /\ got'.elapsed < ttl) =>
             /\ lret'.status = "ok" /\ lret'.cached
             /\ lret'.data = got'.setValue
             /\ lpc' = "idle" /\ ppc' = "idle" /\ hist' = <<>>]_vars

\* the second lookup of the translated paper, one tick after the first
C17_Witness ==
    /\ lret.status = "ok" /\ lret.cached
    /\ lret.req = [kind |-> "PAPER", id |-> "ev-1", translate |-> "true"]
    /\ lret.data = Detail(lret.req)
    /\ got.wasSet /\ got.elapsed = 1
    /\ lpc = "idle" /\ ppc = "idle"

\* C18: a lookup whose postJSON call returns an error returns that error and
\* leaves entries and order as they are, without the lookup's key; an entry
\* appears in the cache only when a lookup's postJSON call returns data, under
\* that lookup's key; and a lookup whose key is not stored calls postJSON.
C18_FailureNotCached ==
    [][/\ (lpc = "fetch" /\ lpc' = "idle" /\ ~ret.ok) =>
             /\ lret'.status = "error" /\ lret'.err = ret.err
             /\ entries' = entries /\ order' = order
             /\ CacheKey(lreq) \notin DOMAIN entries'
       /\ ~((DOMAIN entries') \subseteq (DOMAIN entries)) =>
             /\ lpc = "fetch" /\ lpc' = "idle" /\ ret.ok
             /\ (DOMAIN entries') \ (DOMAIN entries) = {CacheKey(lreq)}
       /\ (Looked /\ got'.key \notin DOMAIN entries') =>
             (lpc' = "fetch" /\ ppc' = "do")]_vars

\* a lookup has failed with status 503 after its retry, next to a stored entry
C18_Witness ==
    /\ lret.status = "error" /\ lret.attempts = 2
    /\ lret.err = StatusFailed(503)
    /\ lret.req.kind = "GUIDE"
    /\ DOMAIN entries = {"PAPER:ev-1:false"}
    /\ lpc = "idle"

\* C19: no lookup of a kind other than PAPER, PAPER_CN, GUIDE and MEETING is
\* ever in postJSON or in the cache; it returns in the step it is called in,
\* with an error that quotes the kind and lists the four kinds, and leaves
\* postJSON's state and the cache as they are.
C19_UnsupportedKind ==
    [][/\ lreq'.kind \in SupportedKinds \cup {"none"}
       /\ DOMAIN entries' \subseteq LookupKeys
       /\ (lret'.status # "none" /\ lret'.req.kind \notin SupportedKinds) =>
             /\ lret'.status = "error"
             /\ lret'.err = UnsupportedType(lret'.req.kind)
             /\ lret'.err.allowed = <<"PAPER", "PAPER_CN", "GUIDE", "MEETING">>
             /\ lpc = "idle" /\ lpc' = "idle"
             /\ UNCHANGED <<postVars, entries, order>>]_vars

C19_Witness ==
    /\ lret.status = "error"
    /\ lret.req.kind = "AUDIO"
    /\ lret.err.quoted = "AUDIO"
    /\ lret.err.allowed = AllowedKinds
    /\ Len(order) = 2
    /\ ppc = "idle"

\* the name of the field tfield says was given another value; for a whole
\* sub-request, the name of its list
Offending == IF tfield.name # "" THEN tfield.name ELSE tfield.list

\* the step is a handler's return of an error before its call of the client
Rejected == tpc = "called" /\ tret'.status = "error"

\* the step leaves the client, the cache, the lookups and the batch as they were
Untouched == UNCHANGED <<postVars, batchVars, cacheVars, lookupVars>>

\* the error of the step is that of normalizeDataScope for a value outside the
\* enumeration, as it is or wrapped by parseBatchEvidenceRequests
ScopeOutside ==
    LET text == "unsupported data scope %q; allowed: PAPER, PAPER_CN, GUIDE, MEETING"
    IN  \/ /\ tfield = [list |-> "", index |-> 0, name |-> "data_scope"]
           /\ tret'.err.msg = text
           /\ tret'.err.names = {}
        \/ /\ tfield.list = "evidences" /\ tfield.name = "type"
           /\ tret'.err.msg = "evidences[%d]: " \o text
           /\ tret'.err.index = tfield.index - 1
           /\ tret'.err.quoted =
                  TrimSpace(targs.evidences.items[tfield.index].fields.type.s)
           /\ tret'.err.names = {"evidences"}

C21_Independent ==
    [][(/\ tpc = "called"
        /\ tname \in BatchTools
        /\ tfield.name \in {"question_id", "answer_type", "evidence_id", "type"}
        /\ tfield.list # "")
         => /\ tret'.status # "error"
            /\ bpc' = "spawn"
            /\ Len(results') = 2]_vars

\* seq without the elements that occur earlier in it
RECURSIVE FirstOccurrences(_)
FirstOccurrences(seq) ==
    IF seq = <<>> THEN <<>>
    ELSE LET front == FirstOccurrences(SubSeq(seq, 1, Len(seq) - 1))
             last == seq[Len(seq)]
         IN  IF last \in {front[i] : i \in DOMAIN front} THEN front
             ELSE Append(front, last)

\* the configured default scope, each value in upper case, in its order
Configured ==
    FirstOccurrences([i \in DOMAIN opts.DefaultDataScope |->
                        ToUpper(TrimSpace(opts.DefaultDataScope[i]))])

\* the step is the call of aiSearch by the handler of knows_ai_search
Searched == tpc = "called" /\ tname = "knows_ai_search" /\ tret'.status = "calling"

\* C22: a search that supplies no data_scope (none, null or an empty list)
\* sends the configured default scope in its configured order, and the list
\* PAPER, PAPER_CN, GUIDE, MEETING when none is configured; a search that
\* supplies ["GUIDE", "PAPER"] sends those two values in that order.
C22_DefaultScope ==
    [][Searched =>
         /\ tret'.call.fn = "aiSearch"
         /\ ppc' = "do"
         /\ targs.data_scope \in {Absent, Null, Arr(<<>>)} =>
              tret'.call.args[2] = IF opts.DefaultDataScope = <<>>
                                   THEN <<"PAPER", "PAPER_CN", "GUIDE", "MEETING">>
                                   ELSE Configured
         /\ targs.data_scope = Arr(<<Str("GUIDE"), Str("PAPER")>>) =>
              tret'.call.args[2] = <<"GUIDE", "PAPER">>]_vars

\* a search without data_scope has sent the configured MEETING, PAPER_CN, GUIDE
C22_Witness ==
    /\ tpc = "client"
    /\ tname = "knows_ai_search"
    /\ targs.data_scope = Absent
    /\ opts.DefaultDataScope = <<"MEETING", "PAPER_CN", "GUIDE">>
    /\ tret.call = [fn |-> "aiSearch", args |-> <<"q-1", <<"MEETING", "PAPER_CN", "GUIDE">>>>]
    /\ ppc = "do"

(***************************************************************************)
(* Claims about NewKnowsTools, checked under SpecNew.                      *)
(***************************************************************************)
\* NewKnowsTools has returned tools
Built == factory.err = "nil"

\* C23 as stated: NewKnowsTools replaces each numeric setting that is zero or
\* negative by its default: 120 s, 3, 500 ms, 5, 1 h, 500.
C23_Defaults ==
    Built =>
        /\ opts.RequestTimeout <= 0 => factory.timeout = 120 * 1000
        /\ opts.MaxRetries <= 0 => factory.maxRetries = 3
        /\ opts.RetryBackoff <= 0 => factory.retryBackoff = 500
        /\ opts.BatchConcurrency <= 0 => factory.batchConcurrency = 5
        /\ opts.CacheTTL <= 0 => factory.cacheTTL = 3600 * 1000
        /\ opts.CacheMaxEntries <= 0 => factory.cacheEntries = 500

\* the strings that are empty or blank
Blank == {"", " "}

\* C24: NewKnowsTools returns an error and no tools when the API key is empty
\* or blank, when the base URL is empty or blank, or when the default scope
\* holds a value that is none of PAPER, PAPER_CN, GUIDE, MEETING in any case;
\* in every other case it returns the 13 tools and no error.
C24_Requires ==
    factory # NotBuilt =>
        LET bad == \/ opts.APIKey \in Blank
                   \/ opts.APIBaseURL \in Blank
                   \/ \E i \in DOMAIN opts.DefaultDataScope :
                         ToUpper(TrimSpace(opts.DefaultDataScope[i])) \notin
                             {"PAPER", "PAPER_CN", "GUIDE", "MEETING"}
        IN  /\ bad => factory.err \notin {"nil", "none"} /\ factory.tools = 0
            /\ ~bad => factory.err = "nil" /\ factory.tools = 13

\* NewKnowsTools has failed on a default scope that holds AUDIO
C24_Witness ==
    /\ opts.APIKey = " key "
    /\ opts.APIBaseURL = "https://knows.example/"
    /\ opts.DefaultDataScope = <<"PAPER", "AUDIO">>
    /\ factory.err = "invalid knows default_data_scope: %w"
    /\ factory.cause.quoted = "AUDIO"
    /\ factory.tools = 0

(***************************************************************************)
(* More claims about postJSON, checked under SpecPost.                     *)
(***************************************************************************)
\* the call has returned after a response with a 2xx status that was read
Answered ==
    /\ ppc = "done"
    /\ hist # <<>>
    /\ ~IsFailure(hist[Len(hist)])

\* C25 as stated: on a 2xx response postJSON returns an empty map for an empty
\* body, the value of the data field whenever the document is an object with a
\* data field, and the document itself otherwise.
C25_Unwrap ==
    Answered =>
        LET body == hist[Len(hist)].body
        IN  /\ body.kind = "blank" => ret = [ok |-> TRUE, data |-> EmptyMap, err |-> NoError]
            /\ body.kind = "json" =>
                 /\ ret.ok
                 /\ ret.data = IF body.doc.t = "object" /\ "data" \in body.doc.fields
                               THEN body.doc.data
                               ELSE body.doc

\* a response that fails in a way the call retries while retries are left: a
\* transport or read error that is not the context's, or a 5xx status
Transient(r) ==
    \/ r.err \notin {"nil"} \cup CtxErrors
    \/ r.err = "nil" /\ r.readErr \notin {"nil"} \cup CtxErrors
    \/ r.err = "nil" /\ r.readErr = "nil" /\ r.status \in 500..599

\* every attempt of the call failed transiently, and the limit is used up
Exhausted ==
    /\ ppc = "done"
    /\ Len(hist) = maxRetries + 1
    /\ \A k \in 1..Len(hist) : Transient(hist[k])

\* C27: when every one of the maxRetries + 1 attempts has failed transiently,
\* postJSON returns the error of the last attempt.
C27_LastError ==
    Exhausted => /\ ~ret.ok
                 /\ ret.err = FailureErr(hist[Len(hist)])
                 /\ ret.err # NoLastError

\* three attempts failed, each in its own way, and the call has returned the
\* error of the third
C27_Witness ==
    /\ Exhausted
    /\ maxRetries = 2
    /\ hist[1].status = 503
    /\ hist[2].err = "Other"
    /\ hist[3].status = 500
    /\ ret.err.status = 500

\* the step is a return of postJSON from inside its loop: after an attempt, or
\* with the context's error out of waitRetry
ReturnsInLoop == ppc = "do" \/ (ppc = "wait" /\ wake = "ctx" /\ ret'.err.cause = ctx)

\* C30: a call makes at least one and at most maxRetries + 1 attempts, it
\* returns only from inside the attempt loop, with a result or with an error,
\* and it does return.
C30_Attempts ==
    /\ [](Len(hist) <= maxRetries + 1)
    /\ [](ppc = "done" => Len(hist) >= 1 /\ (ret.ok \/ ret.err # NoError))
    /\ [][ppc # "done" /\ ppc' = "done" => ReturnsInLoop]_vars
    /\ <>(ppc = "done")

\* a call has returned after maxRetries + 1 = 3 attempts, the last one answered
C30_Witness ==
    /\ ppc = "done"
    /\ maxRetries = 2
    /\ Len(hist) = 3
    /\ ret.ok

\* Execute returns in this step
Returns == tpc # "returned" /\ tpc' = "returned"

\* C26: whatever the operation, Execute returns a result flagged as an error
\* that carries the handler's error exactly when the handler returned an error
\* (before or after it called the client) or json.Marshal rejected the result,
\* and otherwise the serialised result without the flag; Execute has returned
\* exactly when it has yielded one of the two, and a handler that rejects the
\* arguments makes Execute return at once.
C26_ExecuteResult ==
    /\ [](tpc = "returned" <=> tout.kind \in {"error", "result"})
    /\ [][tpc = "called" /\ Handler(tname, targs).err # NilError => Returns]_vars
    /\ [][Returns =>
            IF tpc = "called"
            THEN /\ tout'.kind = "error"
                 /\ tout'.IsError
                 /\ tout'.ForLLM = Handler(tname, targs).err
            ELSE IF ~HandlerResult.ok
            THEN /\ tout'.kind = "error"
                 /\ tout'.IsError
                 /\ tout'.ForLLM = HandlerResult.err
            ELSE IF Marshal(HandlerResult.data).err # "nil"
            THEN /\ tout'.kind = "error"
                 /\ tout'.IsError
            ELSE /\ tout'.kind = "result"
                 /\ ~tout'.IsError
                 /\ tout'.ForLLM = [json |-> HandlerResult.data]]_vars

\* knows_answer was retried, failed again, and Execute returned the error
C26_Witness ==
    /\ tpc = "returned"
    /\ tname = "knows_answer"
    /\ Len(hist) = 2
    /\ tret.status = "error"
    /\ tout.kind = "error"
    /\ tout.IsError
    /\ tout.ForLLM = ret.err

\* the rows of the sub-requests whose lookup succeeded have status "success"
\* and the data of the lookup, in the channel and in what the handler returns
SuccessRows ==
    /\ \A k \in DOMAIN ch :
          called[ch[k].index].ok =>
              /\ ch[k].data.status = "success"
              /\ ch[k].data.data = called[ch[k].index].data
    /\ bpc = "returned" =>
          \A i \in DOMAIN bret :
              called[i].ok =>
                  /\ bret[i].status = "success"
                  /\ bret[i].data = called[i].data
                  /\ bret[i].evidence_id = requests[i].EvidenceID
                  /\ bret[i].type = requests[i].Type

\* the call made for each sub-request is the lookup of its type, for its id
LookupOfType ==
    /\ \A i \in DOMAIN fcall :
          fcall[i] # NoClientCall =>
              /\ LookupKind(fcall[i].fn) = requests[i].Type
              /\ fcall[i].id = requests[i].EvidenceID
    /\ \A i \in DOMAIN fpc : fpc[i] = "done" => fcall[i] # NoClientCall

\* C28 as stated: in knows_batch_get_evidence_details, the call made for a
\* sub-request is the single-item lookup of its type (PAPER: getPaperEN,
\* PAPER_CN: getPaperCN, GUIDE: getGuide, MEETING: getMeeting) and is given
\* the translation flag of the batch, and each sub-request whose lookup
\* succeeded is reported with status "success".
C28_Original ==
    /\ LookupOfType
    /\ \A i \in DOMAIN fcall :
          fcall[i] # NoClientCall => fcall[i].translate = ftranslate
    /\ SuccessRows

\* C28: in knows_batch_get_evidence_details, the call made for a sub-request
\* is the single-item lookup of its type (PAPER: getPaperEN, PAPER_CN:
\* getPaperCN, GUIDE: getGuide, MEETING: getMeeting); getPaperEN, getGuide
\* and getMeeting are given the translation flag of the batch, getPaperCN,
\* which has no such parameter, is not; and each sub-request whose lookup
\* succeeded is reported with status "success".
C28_Dispatch ==
    /\ LookupOfType
    /\ \A i \in DOMAIN fcall :
          fcall[i] # NoClientCall =>
              fcall[i].translate =
                  IF requests[i].Type = "PAPER_CN" THEN "none" ELSE ftranslate
    /\ SuccessRows

\* a batch of a PAPER_CN and a MEETING with the flag true has returned, both
\* rows with status "success": getMeeting got the flag, getPaperCN none
C28_Witness ==
    /\ bpc = "returned"
    /\ ftranslate = "true"
    /\ Len(requests) = 2
    /\ fcall[1] = [fn |-> "getPaperCN", id |-> "ev-1", translate |-> "none"]
    /\ fcall[2] = [fn |-> "getMeeting", id |-> "ev-2", translate |-> "true"]
    /\ bret[1].status = "success"
    /\ bret[2].status = "success"

\* C29: the lock of the cache is held only inside Get and Set: a goroutine
\* whose request is with the server or which is waiting before a retry does
\* not hold it and is in neither Get nor Set, whoever holds the lock is
\* between the Lock and the Unlock of its Get or Set, and so a goroutine that
\* waits for the lock waits for a Get or a Set of another, never for a
\* remote call.
C29_LockOnlyInCache ==
    /\ \A i \in DOMAIN fpc :
          fpc[i] \in {"do", "wait", "none", "done"} => mu # i /\ gpc[i] = "idle"
    /\ mu # 0 => fpc[mu] \in {"get", "set"} /\ gpc[mu] \in Region
    /\ \A i \in DOMAIN fpc :
          gpc[i] = "lock" /\ mu # 0 => mu # i /\ fpc[mu] \in {"get", "set"}

\* one goroutine is in its Get, past the Lock, while the request of the other
\* is with the server
C29_Witness ==
    /\ Len(requests) = 2
    /\ fpc[1] = "do"
    /\ fpc[2] = "get"
    /\ mu = 2
    /\ gpc[2] = "read"

(***************************************************************************)
(* Transient failures followed by an answer, checked under SpecPost.       *)
(***************************************************************************)
\* the call has returned, its context never ended, all attempts but the last
\* failed transiently and the last got a 2xx response that was read
AnsweredAfterRetries ==
    /\ Answered
    /\ ctx = "live"
    /\ \A j \in 1..(Len(hist) - 1) : Transient(hist[j])

\* attempt k was the last of the call, and a wait preceded each attempt but
\* the first
ExactlyAttempts(k) ==
    /\ attempt = k - 1
    /\ k <= maxRetries + 1
    /\ waited = 1..(k - 1)

\* C31 as stated: when attempts 1..k-1 fail transiently and attempt k gets a
\* 2xx response, with no cancellation, the call succeeds with the result of
\* attempt k after exactly k attempts and k-1 waits.
C31_Original ==
    AnsweredAfterRetries =>
        /\ ret.ok
        /\ ret = Decode(hist[Len(hist)].body)
        /\ ExactlyAttempts(Len(hist))

\* C31: when attempts 1..k-1 fail transiently and attempt k gets a 2xx
\* response whose body is empty or is JSON, with no cancellation, the call
\* succeeds with the result of attempt k (the empty map, or the document
\* unwrapped) after exactly k attempts and k-1 waits.
C31_SuccessAfterRetries ==
    AnsweredAfterRetries /\ hist[Len(hist)].body.kind # "invalid" =>
        /\ ret.ok
        /\ ret.err = NoError
        /\ ret = Decode(hist[Len(hist)].body)
        /\ ExactlyAttempts(Len(hist))

\* a 503, then a transport error, then a 200 with a document: the call has
\* returned the document after three attempts and two waits
C31_Witness ==
    /\ AnsweredAfterRetries
    /\ maxRetries = 2
    /\ hist[1].status = 503
    /\ hist[2].err = "Other"
    /\ hist[3].body.kind = "json"
    /\ ret.ok
    /\ waited = {1, 2}

(***************************************************************************)
(* The waits of a call against its attempts, checked under SpecPost.       *)
(***************************************************************************)
\* no wait follows the last attempt the limit permits, attempt maxRetries
\* counted from 0: a failure of that attempt returns its error in the same step
NoWaitAfterFinal ==
    /\ [](waited \subseteq 1..maxRetries)
    /\ [][(/\ ppc = "do"
           /\ attempt = maxRetries
           /\ Len(hist') = Len(hist) + 1
           /\ IsFailure(hist'[Len(hist')])) =>
            /\ ppc' = "done"
            /\ ~ret'.ok
            /\ ret'.err = FailureErr(hist'[Len(hist')])
            /\ waited' = waited]_vars

\* C34 as stated: no wait follows the final permitted attempt, whose failure
\* is returned at once, and a call that has returned has entered strictly
\* fewer waits than it has made attempts.
C34_Original ==
    /\ NoWaitAfterFinal
    /\ [](ppc = "done" => Cardinality(waited) < Len(hist))

\* the call returned the context's error out of its last wait
EndedInWait ==
    /\ ctx # "live"
    /\ ret = Failed(CtxErr(ctx))
    /\ Len(hist) \in waited

\* C34: no wait follows the final permitted attempt, whose failure is
\* returned at once; a call never enters more waits than it has made
\* attempts, and a call that has returned has entered strictly fewer, unless
\* cancellation ended its last wait: every wait that ran out was followed by
\* another attempt.
C34_WaitsBelowAttempts ==
    /\ NoWaitAfterFinal
    /\ [](Cardinality(waited) <= Len(hist))
    /\ [](ppc = "done" /\ ~EndedInWait =>
            /\ Cardinality(waited) < Len(hist)
            /\ waited = 1..(Len(hist) - 1))
    /\ [](ppc = "done" /\ EndedInWait => waited = 1..Len(hist))

\* with maxRetries = 2 three attempts have failed with a 503: two waits, and
\* the error of the third attempt returned without a third
C34_Witness ==
    /\ ppc = "done"
    /\ maxRetries = 2
    /\ attempt = 2
    /\ Len(hist) = 3
    /\ \A k \in 1..3 : hist[k].status = 503
    /\ waited = {1, 2}
    /\ ret.err = StatusFailed(503)

(***************************************************************************)
(* The data_scope a search sends, checked under SpecTools.                 *)
(***************************************************************************)
\* the strings of the list s that are not blank, trimmed and in upper case
RECURSIVE UpperNonBlank(_)
UpperNonBlank(s) ==
    IF s = <<>> THEN <<>>
    ELSE IF TrimSpace(Head(s).s) = "" THEN UpperNonBlank(Tail(s))
    ELSE <<ToUpper(TrimSpace(Head(s).s))>> \o UpperNonBlank(Tail(s))

\* the data_scope of the call is a list of strings
SuppliedList ==
    /\ targs.data_scope.t = "array"
    /\ \A i \in DOMAIN targs.data_scope.items : targs.data_scope.items[i].t = "string"

\* C33: the data_scope a search sends to the client is not empty, holds only
\* values of PAPER, PAPER_CN, GUIDE, MEETING (in upper case) and holds none
\* twice; when the caller supplied a list with a value in it, what is sent
\* is that list trimmed and in upper case, each value at its first occurrence.
C33_ScopeSent ==
    [][Searched =>
         LET sent == tret'.call.args[2]
         IN  /\ Len(sent) >= 1
             /\ \A i \in DOMAIN sent :
                   sent[i] \in {"PAPER", "PAPER_CN", "GUIDE", "MEETING"}
             /\ \A i, j \in DOMAIN sent : sent[i] = sent[j] => i = j
             /\ (SuppliedList /\ UpperNonBlank(targs.data_scope.items) # <<>>) =>
                   sent = FirstOccurrences(UpperNonBlank(targs.data_scope.items))]_vars

\* a search with the data_scope " GUIDE ", paper, GUIDE, PAPER has sent
\* GUIDE, PAPER
C33_Witness ==
    /\ tname = "knows_ai_search"
    /\ tpc = "client"
    /\ targs.data_scope = Arr(<<Str(" GUIDE "), Str("paper"), Str("GUIDE"), Str("PAPER")>>)
    /\ tret.call.args[2] = <<"GUIDE", "PAPER">>

(***************************************************************************)
(* More claims about the cache, checked under SpecCache.                   *)
(***************************************************************************)
\* the keys of c.order
OrderKeys == {order[i] : i \in DOMAIN order}

\* C35: in every state of the cache, after any Sets, Gets that find an
\* expired entry and evictions, c.order holds no key twice and holds exactly
\* the keys of c.entries, so the two have the same length.
C35_OrderMatchesEntries ==
    /\ \A i, j \in DOMAIN order : order[i] = order[j] => i = j
    /\ OrderKeys = DOMAIN entries
    /\ Len(order) = Cardinality(DOMAIN entries)

\* a Set has just evicted a key from a full cache of two entries, in which a
\* key sits that was inserted after time had passed
C35_Witness ==
    /\ did.key # "none"
    /\ did.full
    /\ Len(did.evicted) = 1
    /\ maxEntries = 2
    /\ Len(order) = 2
    /\ now >= 2
    /\ lastSet[order[1]].since > 0

\* the keys this step removes from the cache
Dropped == (DOMAIN entries) \ (DOMAIN entries')

\* C36: a Set removes no entry for being expired.  What a Set removes are the
\* keys at the head of c.order, as many as make room for a new key in a full
\* cache, and none when the key is stored already or the cache has room;
\* every other entry, expired or not, stays as it is.  So an entry that has
\* expired and was not read since keeps its slot, and a Set of a new key into
\* a full cache evicts the key inserted first even when that one has not
\* expired and another has.
C36_SetKeepsExpired ==
    [][did'.key # "none" =>
         /\ Dropped = {order[i] : i \in 1..Cardinality(Dropped)}
         /\ (maxEntries <= 0 \/ did'.existed \/ ~did'.full) => Dropped = {}
         /\ (maxEntries > 0 /\ ~did'.existed /\ did'.full) =>
               Cardinality(Dropped) = Cardinality(DOMAIN entries) - maxEntries + 1
         /\ \A k \in (DOMAIN entries) \ (Dropped \cup {did'.key}) :
               entries'[k] = entries[k]]_vars

\* a Set of a new key into a full cache has just evicted the key inserted
\* first, which had not expired, and an entry that has expired is still stored
C36_Witness ==
    /\ did.key # "none"
    /\ ~did.existed
    /\ did.full
    /\ Len(did.evicted) = 1
    /\ ~(now > did.evicted[1].at + ttl)
    /\ \E k \in DOMAIN entries : now > entries[k].expiresAt

(***************************************************************************)
(* The translation flag and the key of the cache, checked under SpecFlags. *)
(***************************************************************************)
\* the request of the lookup called in this step
Asked == IF lpc' = "fetch" THEN lreq' ELSE lret'.req

\* the lookup q with the flag f
WithFlag(q, f) == [q EXCEPT !.translate = f]

\* absent and false give one key and two payloads; true gives another key
SharedKey ==
    \A q \in FlagRequests :
        /\ CacheKey(WithFlag(q, "nil")) = CacheKey(WithFlag(q, "false"))
        /\ DetailPayload(WithFlag(q, "nil")) # DetailPayload(WithFlag(q, "false"))
        /\ CacheKey(WithFlag(q, "true")) # CacheKey(WithFlag(q, "false"))

\* C37: for PAPER, GUIDE and MEETING, a lookup without the flag and a lookup
\* with the flag false use one cache key, though their payloads differ: when
\* either was stored and the TTL has not passed since, a lookup of the same
\* identifier with either of the two is answered from the cache with what
\* was stored, without a call of postJSON.  A lookup with the flag true uses
\* another key: it is answered from the cache only with a document fetched
\* with the flag true, and calls postJSON when only the other key is stored;
\* nor is a lookup without the flag or with false ever answered with a
\* document fetched with true.
C37_FlagKey ==
    [][Looked =>
         /\ SharedKey
         /\ got'.key = CacheKey(Asked)
         /\ (Asked.translate \in {"nil", "false"} /\ got'.wasSet /\ got'.elapsed <= ttl) =>
               /\ lret'.status = "ok" /\ lret'.cached
               /\ lret'.data = got'.setValue
               /\ lret'.data.name = Asked.kind
               /\ lret'.data.sent.translate_to_chinese \in {"absent", "false"}
               /\ lpc' = "idle" /\ ppc' = "idle" /\ hist' = <<>>
         /\ (Asked.translate = "true" /\ CacheKey(Asked) \notin DOMAIN entries) =>
               lpc' = "fetch" /\ ppc' = "do"
         /\ (Asked.translate = "true" /\ lret'.cached) =>
               lret'.data.sent.translate_to_chinese = "true"
         /\ (Asked.translate # "true" /\ lret'.cached) =>
               lret'.data.sent.translate_to_chinese # "true"]_vars

\* a GUIDE lookup without the flag has been answered from the cache with the
\* document a lookup with the flag false had fetched
C37_Witness ==
    /\ lret.status = "ok" /\ lret.cached
    /\ lret.req = [kind |-> "GUIDE", id |-> "ev-1", translate |-> "nil"]
    /\ lret.data.sent.translate_to_chinese = "false"
    /\ lpc = "idle" /\ ppc = "idle"

(***************************************************************************)
(* Sub-requests of one batch that are the same, checked under SpecFetch.   *)
(***************************************************************************)
\* the batch is one sub-request twice
Twins == Len(requests) = 2 /\ requests[1] = requests[2]

\* the number of positions of c.order that hold key
Positions(key) == Cardinality({j \in DOMAIN order : order[j] = key})

\* the lookup of goroutine i got its document: from the cache, without a
\* request, or from the server with the last of its requests
GotDocument(i) == fres[i].ok \/ (fres[i] = NotReturned /\ fpc[i] = "done")

\* C38: when a batch holds one sub-request twice, the two goroutines are not
\* merged: each asks the cache and, on a miss, the server, for itself.
\* Whatever the interleaving, the key never has more than one position in
\* c.order; and when the batch has returned, each of the two whose lookup got
\* its document reports success with a document of the type, and if either
\* does, the cache holds one entry for the key at one position of c.order.
C38_Twins ==
    Twins =>
        /\ Positions(CacheKey(FetchRequest(1))) <= 1
        /\ bpc = "returned" =>
             /\ \A i \in 1..2 :
                   GotDocument(i) =>
                       /\ bret[i].status = "success"
                       /\ bret[i].data.name = requests[i].Type
             /\ (\E i \in 1..2 : bret[i].status = "success") =>
                   /\ CacheKey(FetchRequest(1)) \in DOMAIN entries
                   /\ Positions(CacheKey(FetchRequest(1))) = 1
                   /\ Len(order) = Cardinality(DOMAIN entries)

\* both goroutines of a batch of one PAPER twice missed the cache, both got
\* the document from the server, both report success, and the cache holds the
\* key once
C38_Witness ==
    /\ Twins
    /\ bpc = "returned"
    /\ fres[1].ok /\ fres[2].ok
    /\ bret[1].status = "success" /\ bret[2].status = "success"
    /\ order = <<CacheKey(FetchRequest(1))>>
    /\ DOMAIN entries = {CacheKey(FetchRequest(1))}

(***************************************************************************)
(* Cancellation during a batch, checked under SpecFetch.                   *)
(***************************************************************************)
\* the lookup of goroutine i returned the error of the context
CancelledCall(i) ==
    /\ ctx # "live"
    /\ ~called[i].ok
    /\ called[i].err.cause = ctx

\* C39: a context that is done does not make the handler skip a sub-request.
\* A goroutine leaves the admission gate only by being admitted, whatever
\* the context; and when the handler has returned, its result is a list with
\* one row for each sub-request, every sub-request has had its lookup called,
\* every row has status "success" or "error", and the row of a sub-request
\* whose lookup returned the error of the context has status "error" and
\* carries that error.  And the handler does return.
C39_CancelledBatch ==
    /\ [][\A i \in DOMAIN wpc :
             (wpc[i] = "acquire" /\ wpc'[i] # "acquire") =>
                 /\ wpc'[i] = "call"
                 /\ sem' = sem + 1]_vars
    /\ [](bpc = "returned" =>
             /\ Len(bret) = Len(requests)
             /\ \A i \in DOMAIN bret :
                   /\ bret[i] # NilItem
                   /\ fcall[i] # NoClientCall
                   /\ bret[i].evidence_id = requests[i].EvidenceID
                   /\ bret[i].status \in {"success", "error"}
                   /\ CancelledCall(i) =>
                         /\ bret[i].status = "error"
                         /\ bret[i].error = called[i].err)
    /\ <>(bpc = "returned")

\* with one slot, the first sub-request was cancelled in its wait before a
\* retry while the second had not been admitted; the second was admitted
\* all the same, its request failed with the context's error, and the handler
\* has returned two rows with status "error"
C39_Witness ==
    /\ bpc = "returned"
    /\ ctx = "Canceled"
    /\ batchConcurrency = 1
    /\ Len(requests) = 2
    /\ sendOrder = <<1, 2>>
    /\ called[1].err = CtxErr(ctx)
    /\ fcall[2] # NoClientCall
    /\ CancelledCall(2)
    /\ fatt[2] = 0
    /\ bret[1].status = "error"
    /\ bret[2].status = "error"

(***************************************************************************)
(* Termination of a batch, checked under SpecBatchFair.                    *)
(***************************************************************************)
\* the handler has made its channels and has not returned
Running == bpc \in {"spawn", "wait", "close", "drain"}

\* every sub-request has its goroutine, and none of them waits at the gate
AllAdmitted ==
    /\ spawned = Len(requests)
    /\ \A i \in DOMAIN wpc : wpc[i] \in {"call", "send", "release", "exit"}

\* every goroutine has delivered its result, freed its slot and exited
AllExited ==
    /\ AllAdmitted
    /\ \A i \in DOMAIN wpc : wpc[i] = "exit"
    /\ sendOrder \in [1..Len(requests) -> 1..Len(requests)]
    /\ sem = 0
    /\ wg = 0

\* C32: a batch of any size under any limit of concurrency terminates when
\* the underlying calls return.  Once the handler has made its channels,
\* every sub-request is eventually admitted, and the handler eventually
\* returns; it returns only when every goroutine has delivered its result,
\* freed its slot and exited, so none is left blocked at the gate or on the
\* channel.  A goroutine moves only from the gate to its call, to the send,
\* to the release of its slot and to its end.
C32_BatchTerminates ==
    /\ Running ~> AllAdmitted
    /\ Running ~> (bpc = "returned")
    /\ [](bpc \in {"close", "drain", "returned"} => AllExited)
    /\ [](bpc = "returned" => ch = <<>> /\ Len(bret) = Len(requests))
    /\ [][\A i \in DOMAIN wpc :
             (i \in DOMAIN wpc' /\ wpc'[i] # wpc[i]) =>
                 <<wpc[i], wpc'[i]>> \in
                     {<<"none", "acquire">>, <<"acquire", "call">>, <<"call", "send">>,
                      <<"send", "release">>, <<"release", "exit">>}]_vars

\* a batch of MaxBatch sub-requests with a single slot has returned: each
\* goroutine but one queued at the gate
C32_Witness ==
    /\ bpc = "returned"
    /\ batchConcurrency = 1
    /\ Len(requests) = MaxBatch
    /\ Len(bret) = MaxBatch
    /\ \A i \in DOMAIN wpc : wpc[i] = "exit"

====
